---- MODULE Spec2Model ----
(***************************************************************************)
(* Model of the dual-issue five-stage pipeline simulator                   *)
(* (mips_pipline/ComprehensivePipelineProcessor.py, InstructionDecoder.py, *)
(* PipelineStage.py).                                                      *)
(*                                                                         *)
(* Representation of Python values:                                        *)
(*   - an optional number or label is a sequence: None is <<>>, a value v  *)
(*     is <<v>>;                                                           *)
(*   - a dict is a record with a field tag = "dict" next to its keys, the  *)
(*     empty dict {} is [tag |-> "dict"], and a None standing where a dict *)
(*     is expected is [tag |-> "None"];                                    *)
(*   - a 32-bit instruction word is the pair <<hi, lo>> of its 16-bit      *)
(*     halves, word = hi * 65536 + lo;                                     *)
(*   - a raised exception is the field error of the machine record; every  *)
(*     later step of the cycle is skipped once it is set.                  *)
(***************************************************************************)
EXTENDS Integers, Sequences, FiniteSets, TLC

\* ------------------------------------------------------------------ bounds
MaxProgLen == 2
MaxShortLen == 1
MaxCycles == 12
MaxIssueWidth == 2
ValueLimit == 100000
MaxShift == 8
SmallRegisterCount == 4
MaxDictSize == 2

\* ------------------------------------------------------- program constants
RegisterCount == 32
MemorySize == 4
LinkRegister == 31
DefaultMemorySize == 4096
DefaultIssueWidth == 2
ReferenceMaxCycles == 100

\* ------------------------------------------------------------ Python values
None == <<>>
Some(v) == <<v>>
PyNone == [tag |-> "None"]
EmptyDict == [tag |-> "dict"]
Truthy(d) == d.tag # "None" /\ DOMAIN d # {"tag"}
HasKey(d, k) == d.tag # "None" /\ k \in DOMAIN d

SetMin(S) == CHOOSE i \in S : \A j \in S : i <= j
SetMax(S) == CHOOSE i \in S : \A j \in S : i >= j
\* len() of a list held as a function on 0..n-1
PyLen(f) == Cardinality(DOMAIN f)
InRange(v) == -ValueLimit <= v /\ v <= ValueLimit

RECURSIVE BitAnd(_, _)
BitAnd(a, b) ==
  IF a = 0 \/ b = 0 THEN 0
  ELSE IF a = -1 THEN b
  ELSE IF b = -1 THEN a
  ELSE (IF a % 2 = 1 /\ b % 2 = 1 THEN 1 ELSE 0) + 2 * BitAnd(a \div 2, b \div 2)

RECURSIVE BitOr(_, _)
BitOr(a, b) ==
  IF a = 0 THEN b
  ELSE IF b = 0 THEN a
  ELSE IF a = -1 \/ b = -1 THEN -1
  ELSE (IF a % 2 = 1 \/ b % 2 = 1 THEN 1 ELSE 0) + 2 * BitOr(a \div 2, b \div 2)

RECURSIVE BitXor(_, _)
BitXor(a, b) ==
  IF a = 0 THEN b
  ELSE IF b = 0 THEN a
  ELSE IF a = -1 THEN -b - 1
  ELSE IF b = -1 THEN -a - 1
  ELSE (IF a % 2 # b % 2 THEN 1 ELSE 0) + 2 * BitXor(a \div 2, b \div 2)

\* ------------------------------------------------------------------ decoder
R_TYPE_MAP ==
  [f \in {32, 34, 36, 37, 39, 42, 38, 43, 0, 2} |->
     CASE f = 32 -> "ADD" [] f = 34 -> "SUB" [] f = 36 -> "AND" [] f = 37 -> "OR"
       [] f = 39 -> "NOR" [] f = 42 -> "SLT" [] f = 38 -> "XOR" [] f = 43 -> "SGT"
       [] f = 0 -> "SLL" [] f = 2 -> "SRL"]

I_TYPE_MAP ==
  [o \in {35, 43, 13, 14, 1, 4, 5, 8} |->
     CASE o = 35 -> "LW" [] o = 43 -> "SW" [] o = 13 -> "ORI" [] o = 14 -> "XORI"
       [] o = 1 -> "BLTZ_BGEZ" [] o = 4 -> "BEQ" [] o = 5 -> "BNE" [] o = 8 -> "ADDI"]

J_TYPE_MAP == [o \in {2, 3} |-> IF o = 2 THEN "J" ELSE "JAL"]

\* get_instruction_type that classes only opcode 2 as J
get_instruction_type_OnlyJ(opcode, funct) ==
  IF opcode = 0 THEN "R"
  ELSE IF opcode = 2 THEN "J"
  ELSE "I"

get_instruction_type(opcode, funct) ==
  IF opcode = 0 THEN "R"
  ELSE IF opcode \in {2, 3} THEN "J"
  ELSE "I"

\* get_instruction_name that reads an unmapped funct as ADD
get_instruction_name_UnmappedIsAdd(opcode, funct) ==
  IF opcode = 0
    THEN (IF funct \in DOMAIN R_TYPE_MAP THEN R_TYPE_MAP[funct] ELSE "ADD")
  ELSE IF opcode \in DOMAIN J_TYPE_MAP THEN J_TYPE_MAP[opcode]
  ELSE IF opcode = 1 THEN (IF funct = 0 THEN "BLTZ" ELSE "BGEZ")
  ELSE IF opcode \in DOMAIN I_TYPE_MAP THEN I_TYPE_MAP[opcode]
  ELSE "UNKNOWN"

get_instruction_name(opcode, funct) ==
  IF opcode = 0
    THEN (IF funct \in DOMAIN R_TYPE_MAP THEN R_TYPE_MAP[funct] ELSE "UNKNOWN")
  ELSE IF opcode \in DOMAIN J_TYPE_MAP THEN J_TYPE_MAP[opcode]
  ELSE IF opcode = 1 THEN (IF funct = 0 THEN "BLTZ" ELSE "BGEZ")
  ELSE IF opcode \in DOMAIN I_TYPE_MAP THEN I_TYPE_MAP[opcode]
  ELSE "UNKNOWN"

\* decode without the sign extension of the immediate
decode_NoSignExtension(w) ==
  LET hi == w[1]
      lo == w[2]
      opcode == (hi \div 1024) % 64
      funct == lo % 64
      imm == lo % 65536
  IN [tag |-> "dict",
      opcode |-> opcode,
      rs |-> (hi \div 32) % 32,
      rt |-> hi % 32,
      rd |-> (lo \div 2048) % 32,
      shamt |-> (lo \div 64) % 32,
      funct |-> funct,
      immediate |-> imm,
      address |-> (hi % 1024) * 65536 + lo,
      type |-> get_instruction_type(opcode, funct),
      mnemonic |-> get_instruction_name(opcode, funct)]

\* decode(instruction) for the word hi * 65536 + lo
decode(w) ==
  LET hi == w[1]
      lo == w[2]
      opcode == (hi \div 1024) % 64
      funct == lo % 64
      imm == lo % 65536
  IN [tag |-> "dict",
      opcode |-> opcode,
      rs |-> (hi \div 32) % 32,
      rt |-> hi % 32,
      rd |-> (lo \div 2048) % 32,
      shamt |-> (lo \div 64) % 32,
      funct |-> funct,
      immediate |-> IF BitAnd(imm, 32768) # 0 THEN imm - 65536 ELSE imm,
      address |-> (hi % 1024) * 65536 + lo,
      type |-> get_instruction_type(opcode, funct),
      mnemonic |-> get_instruction_name(opcode, funct)]

\* ------------------------------------------------------------ stage latches
StageNames == {"IF", "ID", "EX", "MEM", "WB"}
NoneList(w) == [i \in 1..w |-> None]
EmptyDicts(w) == [i \in 1..w |-> EmptyDict]

\* PipelineStage.__init__
PipelineStage(width) == [instructions |-> NoneList(width), details |-> EmptyDicts(width)]

\* the mnemonic label of a latched record carrying a decoded instruction
DecodedLabel(data) ==
  IF Truthy(data) /\ HasKey(data, "decoded") /\ HasKey(data.decoded, "mnemonic")
    THEN Some(data.decoded.mnemonic)
    ELSE None

\* flush_pipeline that clears only the Fetch and Decode latches
flush_pipeline_FrontOnly(m) ==
  [m EXCEPT !.stages = [s \in StageNames |->
     IF s \in {"IF", "ID"}
       THEN [instructions |-> NoneList(m.issue_width), details |-> EmptyDicts(m.issue_width)]
       ELSE m.stages[s]]]

\* flush_pipeline that leaves one slot in every latch
flush_pipeline_OneSlot(m) ==
  [m EXCEPT !.stages = [s \in StageNames |->
     [instructions |-> NoneList(1), details |-> EmptyDicts(1)]]]

\* flush_pipeline that leaves the Fetch latch as it is
flush_pipeline_KeepsFetch(m) ==
  [m EXCEPT !.stages = [s \in StageNames |->
     IF s = "IF" THEN m.stages[s]
     ELSE [instructions |-> NoneList(m.issue_width), details |-> EmptyDicts(m.issue_width)]]]

flush_pipeline(m) ==
  [m EXCEPT !.stages = [s \in StageNames |->
     [instructions |-> NoneList(m.issue_width), details |-> EmptyDicts(m.issue_width)]]]

\* ------------------------------------------------------------- operand read
FwdScan(m) == m.forwarding.EX_MEM \o m.forwarding.MEM_WB

\* the positions of the scan whose record names reg_num
ScanHits(scan, reg_num) ==
  {i \in 1..Len(scan) :
     /\ Truthy(scan[i])
     /\ HasKey(scan[i], "rd")
     /\ scan[i].rd = reg_num
     /\ reg_num # 0}

FwdHits(m, reg_num) == ScanHits(FwdScan(m), reg_num)

\* the value of the first hit of the scan, the register file when there is
\* none
FirstHit(scan, hits, regs, reg_num) ==
  IF hits # {} THEN scan[SetMin(hits)].value ELSE Some(regs[reg_num])

\* get_register_value raises IndexError when it falls back to a register
\* index outside the register file
get_register_value_raises(m, reg_num) ==
  FwdHits(m, reg_num) = {} /\ reg_num \notin DOMAIN m.registers

get_register_value(m, reg_num) ==
  FirstHit(FwdScan(m), FwdHits(m, reg_num), m.registers, reg_num)

\* dict.get(key): the stored optional value, None when the key is absent
Get(d, k) == IF HasKey(d, k) THEN d[k] ELSE None

R_ALU == {"ADD", "SUB", "AND", "OR", "NOR", "XOR", "SLT", "SGT", "SLL", "SRL"}
I_ALU == {"ADDI", "ORI", "XORI"}

\* ---------------------------------------------------------------- writeback
\* WriteBackTarget without the tests rd != 0 and rt != 0
WriteBackTarget_NoZeroTest(m, data) ==
  LET decoded == data.decoded
      mnemonic == decoded.mnemonic
      alu_result == Get(data, "alu_result")
      mem_result == Get(data, "mem_result")
  IN IF mnemonic \in R_ALU /\ alu_result # None THEN Some(<<decoded.rd, alu_result[1]>>)
     ELSE IF mnemonic \in I_ALU /\ alu_result # None THEN Some(<<decoded.rt, alu_result[1]>>)
     ELSE IF mnemonic = "LW" /\ mem_result # None THEN Some(<<decoded.rt, mem_result[1]>>)
     ELSE None

\* WriteBackTarget writing the R-class result to rt instead of rd
WriteBackTarget_WritesRt(m, data) ==
  LET decoded == data.decoded
      mnemonic == decoded.mnemonic
      alu_result == Get(data, "alu_result")
      mem_result == Get(data, "mem_result")
  IN IF mnemonic \in R_ALU /\ decoded.rt # 0 /\ alu_result # None
       THEN Some(<<decoded.rt, alu_result[1]>>)
     ELSE IF mnemonic \in I_ALU /\ decoded.rt # 0 /\ alu_result # None
       THEN Some(<<decoded.rt, alu_result[1]>>)
     ELSE IF mnemonic = "LW" /\ decoded.rt # 0 /\ mem_result # None
       THEN Some(<<decoded.rt, mem_result[1]>>)
     ELSE None

\* WriteBackTarget committing the address of a load instead of the loaded word
WriteBackTarget_LoadsAddress(m, data) ==
  LET decoded == data.decoded
      mnemonic == decoded.mnemonic
      alu_result == Get(data, "alu_result")
      mem_result == Get(data, "mem_result")
      rd == decoded.rd
      rt == decoded.rt
  IN IF mnemonic \in R_ALU /\ rd # 0 /\ alu_result # None THEN Some(<<rd, alu_result[1]>>)
     ELSE IF mnemonic \in I_ALU /\ rt # 0 /\ alu_result # None THEN Some(<<rt, alu_result[1]>>)
     ELSE IF mnemonic = "LW" /\ rt # 0 /\ alu_result # None THEN Some(<<rt, alu_result[1]>>)
     ELSE IF mnemonic = "JAL" /\ Get(data, "jump_address") # None THEN Some(<<LinkRegister, m.pc>>)
     ELSE None

\* the register write of one Memory-latch record: <<register, value>> or None
\* WriteBackTarget that treats SW as a load
WriteBackTarget_StoreWritesRt(m, data) ==
  LET decoded == data.decoded
      mnemonic == decoded.mnemonic
      alu_result == Get(data, "alu_result")
      mem_result == Get(data, "mem_result")
      rd == decoded.rd
      rt == decoded.rt
  IN IF mnemonic \in R_ALU /\ rd # 0 /\ alu_result # None THEN Some(<<rd, alu_result[1]>>)
     ELSE IF mnemonic \in I_ALU /\ rt # 0 /\ alu_result # None THEN Some(<<rt, alu_result[1]>>)
     ELSE IF mnemonic \in {"LW", "SW"} /\ rt # 0 /\ mem_result # None
       THEN Some(<<rt, mem_result[1]>>)
     ELSE IF mnemonic = "JAL" /\ Get(data, "jump_address") # None THEN Some(<<LinkRegister, m.pc>>)
     ELSE None

\* WriteBackTarget whose JAL arm does not ask for a jump_address
WriteBackTarget_LinksAtWriteback(m, data) ==
  LET decoded == data.decoded
      mnemonic == decoded.mnemonic
      alu_result == Get(data, "alu_result")
      mem_result == Get(data, "mem_result")
      rd == decoded.rd
      rt == decoded.rt
  IN IF mnemonic \in R_ALU /\ rd # 0 /\ alu_result # None THEN Some(<<rd, alu_result[1]>>)
     ELSE IF mnemonic \in I_ALU /\ rt # 0 /\ alu_result # None THEN Some(<<rt, alu_result[1]>>)
     ELSE IF mnemonic = "LW" /\ rt # 0 /\ mem_result # None THEN Some(<<rt, mem_result[1]>>)
     ELSE IF mnemonic = "JAL" THEN Some(<<LinkRegister, m.pc>>)
     ELSE None

WriteBackTarget(m, data) ==
  LET decoded == data.decoded
      mnemonic == decoded.mnemonic
      alu_result == Get(data, "alu_result")
      mem_result == Get(data, "mem_result")
      rd == decoded.rd
      rt == decoded.rt
  IN IF mnemonic \in R_ALU /\ rd # 0 /\ alu_result # None THEN Some(<<rd, alu_result[1]>>)
     ELSE IF mnemonic \in I_ALU /\ rt # 0 /\ alu_result # None THEN Some(<<rt, alu_result[1]>>)
     ELSE IF mnemonic = "LW" /\ rt # 0 /\ mem_result # None THEN Some(<<rt, mem_result[1]>>)
     ELSE IF mnemonic = "JAL" /\ Get(data, "jump_address") # None THEN Some(<<LinkRegister, m.pc>>)
     ELSE None

RECURSIVE WriteBackLoop(_, _, _)
WriteBackLoop(m, memory_data, i) ==
  IF i > Len(memory_data) \/ m.error # "none" THEN m
  ELSE LET data == memory_data[i] IN
    IF data.tag = "None" \/ ~HasKey(data, "decoded") \/ ~HasKey(data.decoded, "mnemonic")
      THEN WriteBackLoop(m, memory_data, i + 1)
    ELSE LET t == WriteBackTarget(m, data) IN
      IF t = None THEN WriteBackLoop(m, memory_data, i + 1)
      ELSE IF t[1][1] \notin DOMAIN m.registers
        THEN [m EXCEPT !.error = "IndexError"]
      ELSE WriteBackLoop([m EXCEPT !.registers[t[1][1]] = t[1][2],
                                   !.committed = @ \cup {t[1]},
                                   !.wb_writes = @ \cup {t[1]}],
                         memory_data, i + 1)

\* the latch update that ends write_back_stage_func; m1 is the machine the
\* loop left
WriteBackLatch(m1, memory_data) ==
  IF m1.error # "none" THEN m1
  ELSE [m1 EXCEPT !.stages["WB"] =
          [instructions |-> [i \in 1..Len(memory_data) |-> DecodedLabel(memory_data[i])],
           details |-> IF Len(memory_data) > 0 THEN memory_data
                       ELSE EmptyDicts(m1.issue_width)]]

write_back_stage_func(m, memory_data) ==
  WriteBackLatch(WriteBackLoop(m, memory_data, 1), memory_data)

\* ------------------------------------------------------------- memory stage
\* InMemory that takes address 0 for an address outside the memory
InMemory_ExcludesZero(m, alu_result) ==
  alu_result # None /\ 0 < alu_result[1] /\ alu_result[1] < PyLen(m.memory)

InMemory(m, alu_result) ==
  alu_result # None /\ 0 <= alu_result[1] /\ alu_result[1] < PyLen(m.memory)

RECURSIVE MemoryLoop(_, _, _, _)
MemoryLoop(m, execute_data, i, mem_results) ==
  IF m.error # "none" THEN [m |-> m, mem_results |-> mem_results]
  ELSE IF i > Len(execute_data) THEN [m |-> m, mem_results |-> mem_results]
  ELSE LET data == execute_data[i] IN
    IF data.tag = "None" \/ ~HasKey(data, "decoded")
      THEN MemoryLoop(m, execute_data, i + 1, Append(mem_results, PyNone))
    ELSE IF ~HasKey(data.decoded, "mnemonic")
      THEN MemoryLoop(m, execute_data, i + 1, Append(mem_results, PyNone))
    ELSE LET decoded == data.decoded
             alu_result == Get(data, "alu_result")
             mnemonic == decoded.mnemonic
             is_load == mnemonic = "LW" /\ InMemory(m, alu_result)
             is_store == mnemonic = "SW" /\ InMemory(m, alu_result)
             mem_result == IF is_load THEN Some(m.memory[alu_result[1]]) ELSE alu_result
             rec == [tag |-> "dict", mem_result |-> mem_result,
                     decoded |-> decoded, alu_result |-> alu_result]
         IN IF is_store /\ ~is_load /\ decoded.rt \notin DOMAIN m.registers
              THEN [m |-> [m EXCEPT !.error = "IndexError"], mem_results |-> mem_results]
            ELSE MemoryLoop(
                   IF is_store /\ ~is_load
                     THEN [m EXCEPT !.memory[alu_result[1]] = m.registers[decoded.rt]]
                     ELSE m,
                   execute_data, i + 1, Append(mem_results, rec))

\* the latch update that ends memory_stage_func; r is what the loop left
MemoryLatch(r, execute_data) ==
  IF r.m.error # "none" THEN r.m
  ELSE [r.m EXCEPT !.stages["MEM"] =
          [instructions |-> [i \in 1..Len(execute_data) |-> DecodedLabel(execute_data[i])],
           details |-> r.mem_results]]

memory_stage_func(m, execute_data) ==
  MemoryLatch(MemoryLoop(m, execute_data, 1, <<>>), execute_data)

\* ------------------------------------------------------------ execute stage
\* The ALU and branch computation of one slot (execute_stage, the if/elif
\* chain).  err is the exception the Python expression raises on a None
\* operand; in_range is FALSE when the result leaves the integer range of
\* the model (Python integers are unbounded).
ExecCompute(decoded, rs_val, rt_val, pc) ==
  LET instr_type == decoded.type
      mnemonic == decoded.mnemonic
      shamt == decoded.shamt
      imm == decoded.immediate
      a == IF rs_val = None THEN 0 ELSE rs_val[1]
      b == IF rt_val = None THEN 0 ELSE rt_val[1]
      uses_rs == \/ instr_type = "R" /\ mnemonic \in R_ALU \ {"SLL", "SRL"}
                 \/ instr_type = "I" /\ mnemonic \in I_ALU \cup {"LW", "SW", "BLTZ", "BGEZ"}
      uses_rt == instr_type = "R" /\ mnemonic \in R_ALU
      type_error == (uses_rs /\ rs_val = None) \/ (uses_rt /\ rt_val = None)
      fits == CASE instr_type = "R" /\ mnemonic = "NOR" -> BitOr(a, b) < 0
                [] instr_type = "R" /\ mnemonic = "SLL" -> shamt <= MaxShift
                [] instr_type = "R" /\ mnemonic = "SRL" -> b >= 0
                [] OTHER -> TRUE
      value ==
        CASE instr_type = "R" /\ mnemonic = "ADD" -> Some(a + b)
          [] instr_type = "R" /\ mnemonic = "SUB" -> Some(a - b)
          [] instr_type = "R" /\ mnemonic = "AND" -> Some(BitAnd(a, b))
          [] instr_type = "R" /\ mnemonic = "OR" -> Some(BitOr(a, b))
          [] instr_type = "R" /\ mnemonic = "NOR" -> Some(-BitOr(a, b) - 1)
          [] instr_type = "R" /\ mnemonic = "XOR" -> Some(BitXor(a, b))
          [] instr_type = "R" /\ mnemonic = "SLT" -> Some(IF a < b THEN 1 ELSE 0)
          [] instr_type = "R" /\ mnemonic = "SGT" -> Some(IF a > b THEN 1 ELSE 0)
          [] instr_type = "R" /\ mnemonic = "SLL" -> Some(b * 2^shamt)
          [] instr_type = "R" /\ mnemonic = "SRL" -> Some(IF shamt > 30 THEN 0 ELSE b \div 2^shamt)
          [] instr_type = "I" /\ mnemonic = "ADDI" -> Some(a + imm)
          [] instr_type = "I" /\ mnemonic = "ORI" -> Some(BitOr(a, imm % 65536))
          [] instr_type = "I" /\ mnemonic = "XORI" -> Some(BitXor(a, imm % 65536))
          [] instr_type = "I" /\ mnemonic \in {"LW", "SW"} -> Some(a + imm)
          [] OTHER -> None
      taken ==
        \/ instr_type = "I" /\ mnemonic = "BEQ" /\ rs_val = rt_val
        \/ instr_type = "I" /\ mnemonic = "BNE" /\ rs_val # rt_val
        \/ instr_type = "I" /\ mnemonic = "BLTZ" /\ a < 0
        \/ instr_type = "I" /\ mnemonic = "BGEZ" /\ a >= 0
        \/ instr_type = "J" /\ mnemonic \in {"J", "JAL"}
      target == IF instr_type = "J" THEN decoded.address ELSE pc + imm
  IN IF type_error
       THEN [err |-> "TypeError", in_range |-> TRUE, result |-> None,
             taken |-> FALSE, target |-> 0, link |-> FALSE]
     ELSE IF ~fits
       THEN [err |-> "none", in_range |-> FALSE, result |-> None,
             taken |-> FALSE, target |-> 0, link |-> FALSE]
     ELSE [err |-> "none",
           in_range |-> value = None \/ InRange(value[1]),
           result |-> value,
           taken |-> taken,
           target |-> target,
           link |-> instr_type = "J" /\ mnemonic = "JAL"]

\* ExecuteRecord that redirects the program counter without flushing
ExecuteRecord_NoFlush(acc, decoded, c, m1, branch_taken, jump_address) ==
  [m |-> [(IF branch_taken /\ jump_address # None
             THEN [m1 EXCEPT !.pc = jump_address[1]]
             ELSE m1) EXCEPT !.in_range = @ /\ c.in_range],
   results |-> Append(acc.results,
                      [tag |-> "dict", alu_result |-> c.result, decoded |-> decoded,
                       branch_taken |-> branch_taken, jump_address |-> jump_address]),
   branch_taken |-> branch_taken,
   jump_address |-> jump_address]

\* ExecuteRecord whose flush spares the Fetch latch
ExecuteRecord_KeepsFetchLatch(acc, decoded, c, m1, branch_taken, jump_address) ==
  [m |-> [(IF branch_taken /\ jump_address # None
             THEN [flush_pipeline([m1 EXCEPT !.pc = jump_address[1]])
                     EXCEPT !.stages["IF"] = m1.stages["IF"]]
             ELSE m1) EXCEPT !.in_range = @ /\ c.in_range],
   results |-> Append(acc.results,
                      [tag |-> "dict", alu_result |-> c.result, decoded |-> decoded,
                       branch_taken |-> branch_taken, jump_address |-> jump_address]),
   branch_taken |-> branch_taken,
   jump_address |-> jump_address]

\* the end of one iteration of the loop of execute_stage: the pc update with
\* its flush, and the record appended to results; m1 is the machine after
\* the ALU step
ExecuteRecord(acc, decoded, c, m1, branch_taken, jump_address) ==
  [m |-> [(IF branch_taken /\ jump_address # None
             THEN flush_pipeline([m1 EXCEPT !.pc = jump_address[1]])
             ELSE m1) EXCEPT !.in_range = @ /\ c.in_range],
   results |-> Append(acc.results,
                      [tag |-> "dict", alu_result |-> c.result, decoded |-> decoded,
                       branch_taken |-> branch_taken, jump_address |-> jump_address]),
   branch_taken |-> branch_taken,
   jump_address |-> jump_address]

\* ExecuteApply that links register 31 for J as it does for JAL
ExecuteApply_LinksEveryJump(acc, decoded, c) ==
  IF c.err # "none" THEN [acc EXCEPT !.m.error = c.err]
  ELSE IF (c.link \/ decoded.mnemonic = "J") /\ LinkRegister \notin DOMAIN acc.m.registers
    THEN [acc EXCEPT !.m.error = "IndexError"]
  ELSE ExecuteRecord(acc, decoded, c,
                     IF c.link \/ decoded.mnemonic = "J"
                       THEN [acc.m EXCEPT !.registers[LinkRegister] = acc.m.pc]
                     ELSE acc.m,
                     acc.branch_taken \/ c.taken,
                     IF c.taken THEN Some(c.target) ELSE acc.jump_address)

\* one iteration of the loop of execute_stage once the operands are read; c
\* is the outcome of the if/elif chain
ExecuteApply(acc, decoded, c) ==
  IF c.err # "none" THEN [acc EXCEPT !.m.error = c.err]
  ELSE IF c.link /\ LinkRegister \notin DOMAIN acc.m.registers
    THEN [acc EXCEPT !.m.error = "IndexError"]
  ELSE ExecuteRecord(acc, decoded, c,
                     IF c.link THEN [acc.m EXCEPT !.registers[LinkRegister] = acc.m.pc]
                     ELSE acc.m,
                     acc.branch_taken \/ c.taken,
                     IF c.taken THEN Some(c.target) ELSE acc.jump_address)

\* one iteration of the loop of execute_stage; acc carries the machine and
\* the locals results, branch_taken, jump_address
ExecuteSlot(acc, decoded) ==
  IF acc.m.error # "none" THEN acc
  ELSE IF decoded.tag = "None" THEN [acc EXCEPT !.results = Append(@, PyNone)]
  ELSE IF get_register_value_raises(acc.m, decoded.rs)
          \/ get_register_value_raises(acc.m, decoded.rt)
    THEN [acc EXCEPT !.m.error = "IndexError"]
  ELSE ExecuteApply(acc, decoded,
                     ExecCompute(decoded, get_register_value(acc.m, decoded.rs),
                                 get_register_value(acc.m, decoded.rt), acc.m.pc))

RECURSIVE ExecuteLoop(_, _, _)
ExecuteLoop(acc, decoded_instructions, i) ==
  IF i > Len(decoded_instructions) THEN acc
  ELSE ExecuteLoop(ExecuteSlot(acc, decoded_instructions[i]), decoded_instructions, i + 1)

MnemonicLabel(decoded) == IF Truthy(decoded) THEN Some(decoded.mnemonic) ELSE None

\* ExecuteLatch that leaves the Execute latch as the flush of a taken branch
\* or jump left it
ExecuteLatch_FlushedOnTaken(r, decoded_instructions) ==
  IF r.m.error # "none" THEN r.m
  ELSE IF r.branch_taken /\ r.jump_address # None THEN r.m
  ELSE [r.m EXCEPT !.stages["EX"] =
          [instructions |-> [i \in 1..Len(decoded_instructions) |->
                               MnemonicLabel(decoded_instructions[i])],
           details |-> r.results]]

\* the latch update that ends execute_stage; r is what the loop left
ExecuteLatch(r, decoded_instructions) ==
  IF r.m.error # "none" THEN r.m
  ELSE [r.m EXCEPT !.stages["EX"] =
          [instructions |-> [i \in 1..Len(decoded_instructions) |->
                               MnemonicLabel(decoded_instructions[i])],
           details |-> r.results]]

execute_stage(m, decoded_instructions) ==
  ExecuteLatch(ExecuteLoop([m |-> m, results |-> <<>>, branch_taken |-> FALSE,
                            jump_address |-> None], decoded_instructions, 1),
               decoded_instructions)

\* the argument run_pipeline_cycle passes to execute_stage
DecodeLatchOutput(m) ==
  [i \in 1..Len(m.stages["ID"].details) |->
     LET d == m.stages["ID"].details[i] IN
     IF Truthy(d) /\ HasKey(d, "decoded_instruction") THEN d.decoded_instruction ELSE PyNone]

\* ------------------------------------------------------------- decode stage
DecodeAll(instructions) ==
  [i \in 1..Len(instructions) |->
     IF instructions[i] # None THEN decode(instructions[i][1]) ELSE PyNone]

\* the latch update of decode_stage
DecodeLatch(m, instructions, decoded_instructions) ==
  [m EXCEPT !.stages["ID"] =
     [instructions |-> [i \in 1..Len(instructions) |-> MnemonicLabel(decoded_instructions[i])],
      details |-> [i \in 1..Len(instructions) |->
                     IF Truthy(decoded_instructions[i])
                       THEN [tag |-> "dict", decoded_instruction |-> decoded_instructions[i]]
                       ELSE EmptyDict]]]

decode_stage(m, instructions) == DecodeLatch(m, instructions, DecodeAll(instructions))

\* ---------------------------------------------------------- hazard detection
get_source_registers(decoded) ==
  IF decoded.type = "R" THEN {decoded.rs, decoded.rt}
  ELSE IF decoded.type = "I"
    THEN (IF decoded.mnemonic \in {"BEQ", "BNE", "SW"} THEN {decoded.rs, decoded.rt}
          ELSE {decoded.rs})
  ELSE {}

\* decoded.get(rd) or decoded.get(rt)
RdOrRt(decoded) == IF decoded.rd # 0 THEN decoded.rd ELSE decoded.rt

\* detect_data_hazard that does not look at the Memory latch
detect_data_hazard_ExecuteOnly(m, decoded_instructions) ==
  \E i \in 1..Len(decoded_instructions) :
    /\ decoded_instructions[i].tag # "None"
    /\ LET src_regs == get_source_registers(decoded_instructions[i]) IN
       \/ \E stage_name \in {"EX"} :
            \E k \in 1..Len(m.stages[stage_name].details) :
              LET prev_instr == m.stages[stage_name].details[k] IN
              /\ Truthy(prev_instr)
              /\ HasKey(prev_instr, "decoded")
              /\ RdOrRt(prev_instr.decoded) \in src_regs
              /\ RdOrRt(prev_instr.decoded) # 0
       \/ \E j \in (i + 1)..Len(decoded_instructions) :
            /\ Truthy(decoded_instructions[j])
            /\ RdOrRt(decoded_instructions[j]) \in src_regs
            /\ RdOrRt(decoded_instructions[j]) # 0

detect_data_hazard(m, decoded_instructions) ==
  \E i \in 1..Len(decoded_instructions) :
    /\ decoded_instructions[i].tag # "None"
    /\ LET src_regs == get_source_registers(decoded_instructions[i]) IN
       \/ \E stage_name \in {"EX", "MEM"} :
            \E k \in 1..Len(m.stages[stage_name].details) :
              LET prev_instr == m.stages[stage_name].details[k] IN
              /\ Truthy(prev_instr)
              /\ HasKey(prev_instr, "decoded")
              /\ RdOrRt(prev_instr.decoded) \in src_regs
              /\ RdOrRt(prev_instr.decoded) # 0
       \/ \E j \in (i + 1)..Len(decoded_instructions) :
            /\ Truthy(decoded_instructions[j])
            /\ RdOrRt(decoded_instructions[j]) \in src_regs
            /\ RdOrRt(decoded_instructions[j]) # 0

\* -------------------------------------------------------------- fetch stage
RECURSIVE FetchLoop(_, _, _)
FetchLoop(m, instructions, k) ==
  IF k = 0 \/ m.error # "none" THEN [m |-> m, instructions |-> instructions]
  ELSE IF m.pc < Len(m.program)
    THEN (IF m.pc < -Len(m.program)
            THEN [m |-> [m EXCEPT !.error = "IndexError"], instructions |-> instructions]
            ELSE FetchLoop([m EXCEPT !.pc = @ + 1],
                           Append(instructions,
                                  Some(m.program[IF m.pc >= 0 THEN m.pc + 1
                                                 ELSE Len(m.program) + m.pc + 1])),
                           k - 1))
    ELSE FetchLoop(m, Append(instructions, None), k - 1)

\* the latch update that ends fetch_stage; r is what the loop left
FetchLatch(r) ==
  IF r.m.error # "none" THEN r
  ELSE [m |-> [r.m EXCEPT !.stages["IF"] =
                 [instructions |-> r.instructions,
                  details |-> [i \in 1..Len(r.instructions) |->
                                 IF r.instructions[i] # None
                                   THEN [tag |-> "dict",
                                         program_counter |-> r.m.pc - Len(r.instructions) + (i - 1),
                                         raw_instruction |-> r.instructions[i][1]]
                                   ELSE EmptyDict]]],
        instructions |-> r.instructions]

\* fetch_stage that leaves the program counter where it was
fetch_stage_NoAdvance(m) ==
  [FetchLatch(FetchLoop(m, <<>>, m.issue_width)) EXCEPT !.m.pc = m.pc]

fetch_stage(m) == FetchLatch(FetchLoop(m, <<>>, m.issue_width))

\* ------------------------------------------------------- forwarding update
\* UpdateForwarding that does not age the one-cycle-old generation
UpdateForwarding_NoShift(m) ==
  [m EXCEPT !.forwarding.EX_MEM =
     [i \in 1..Len(m.stages["EX"].details) |->
        IF Truthy(m.stages["EX"].details[i])
          THEN [tag |-> "dict",
                rd |-> IF m.stages["EX"].details[i].decoded.rd # 0
                         THEN m.stages["EX"].details[i].decoded.rd
                         ELSE m.stages["EX"].details[i].decoded.rt,
                value |-> m.stages["EX"].details[i].alu_result]
          ELSE PyNone]]

ForwardingRecord(data) ==
  IF ~Truthy(data) THEN PyNone
  ELSE [tag |-> "dict", rd |-> RdOrRt(data.decoded), value |-> Get(data, "alu_result")]

UpdateForwarding(m) ==
  [m EXCEPT !.forwarding =
     [MEM_WB |-> m.forwarding.EX_MEM,
      EX_MEM |-> [i \in 1..Len(m.stages["EX"].details) |->
                    ForwardingRecord(m.stages["EX"].details[i])]]]

\* ------------------------------------------------------- run_pipeline_cycle
\* Returns the machine after the cycle together with the locals of the call
\* (hazard, decoded_instructions, fetched_instructions) and the machine as
\* the hazard check saw it.
\* the forwarding update and the values the call leaves behind; f is what
\* the flush or the fetch left
CycleForward(checked, hazard, decoded_instructions, f) ==
  [m |-> IF f.m.error # "none" THEN f.m ELSE UpdateForwarding(f.m),
   hazard |-> hazard,
   decoded_instructions |-> decoded_instructions,
   fetched_instructions |-> f.instructions,
   checked |-> checked]

\* some slot of an Execute latch carries a taken branch or jump
Resolves(details) ==
  \E i \in 1..Len(details) :
    /\ Truthy(details[i])
    /\ details[i].branch_taken
    /\ details[i].jump_address # None

\* CycleFetch that fetches nothing in the cycle in which Execute resolved a
\* taken branch or jump
CycleFetch_IdleOnTaken(m4, hazard, decoded_instructions) ==
  CycleForward(m4, hazard, decoded_instructions,
               IF m4.error # "none" THEN [m |-> m4, instructions |-> <<>>]
               ELSE IF hazard
                 THEN [m |-> flush_pipeline(m4), instructions |-> NoneList(m4.issue_width)]
               ELSE IF Resolves(m4.stages["EX"].details)
                 THEN [m |-> m4, instructions |-> NoneList(m4.issue_width)]
               ELSE fetch_stage(m4))

\* CycleFetch that on a hazard moves the program counter back to the
\* discarded group
CycleFetch_RetriesOnHazard(m4, hazard, decoded_instructions) ==
  CycleForward(m4, hazard, decoded_instructions,
               IF m4.error # "none" THEN [m |-> m4, instructions |-> <<>>]
               ELSE IF hazard
                 THEN [m |-> flush_pipeline(
                               [m4 EXCEPT !.pc = @ - Cardinality(
                                  {i \in 1..Len(m4.stages["IF"].instructions) :
                                     m4.stages["IF"].instructions[i] # None})]),
                       instructions |-> NoneList(m4.issue_width)]
               ELSE fetch_stage(m4))

\* if hazard: flush, pc unchanged, nothing fetched; else: fetch
CycleFetch(m4, hazard, decoded_instructions) ==
  CycleForward(m4, hazard, decoded_instructions,
               IF m4.error # "none" THEN [m |-> m4, instructions |-> <<>>]
               ELSE IF hazard
                 THEN [m |-> flush_pipeline(m4), instructions |-> NoneList(m4.issue_width)]
               ELSE fetch_stage(m4))

\* hazard = detect_data_hazard(decoded_instructions)
CycleHazard(m4, decoded_instructions) ==
  CycleFetch(m4, m4.error = "none" /\ detect_data_hazard(m4, decoded_instructions),
             decoded_instructions)

\* decoded_instructions = decode_stage(IF latch instructions)
CycleDecode(m3) ==
  CycleHazard(IF m3.error # "none" THEN m3
              ELSE decode_stage(m3, m3.stages["IF"].instructions),
              DecodeAll(m3.stages["IF"].instructions))

\* execute_stage(decoded instructions of the ID latch)
CycleExecute(m2) ==
  CycleDecode(IF m2.error # "none" THEN m2 ELSE execute_stage(m2, DecodeLatchOutput(m2)))

\* memory_stage_func(EX latch details)
CycleMemory(m1) ==
  CycleExecute(IF m1.error # "none" THEN m1
               ELSE memory_stage_func(m1, m1.stages["EX"].details))

\* CycleWriteBack whose Writeback consumes the Execute latch
CycleWriteBack_ReadsExecute(m0) ==
  CycleMemory(write_back_stage_func(m0, m0.stages["EX"].details))

\* write_back_stage_func(MEM latch details)
CycleWriteBack(m0) ==
  CycleMemory(write_back_stage_func(m0, m0.stages["MEM"].details))

run_pipeline_cycle(m) == CycleWriteBack([m EXCEPT !.cycle_count = @ + 1])

\* ================================================================== state
VARIABLES
  registers,      \* self.registers, a function on 0..register_count-1
  memory,         \* self.memory, a function on 0..memory_size-1
  pc,             \* self.pc
  cycle_count,    \* self.cycle_count
  program,        \* self.program
  stages,         \* self.stages: stage name -> [instructions, details]
  forwarding,     \* self.forwarding: [EX_MEM, MEM_WB]
  issue_width,    \* self.issue_width
  error,          \* the exception that left simulate, "none" if none
  sim,            \* position of the caller: "idle", "running", "returned", "raised"
  max_cycles,     \* argument of simulate
  committed,      \* history: <<register, value>> pairs written by Writeback
  registers0,     \* history: the register file when simulate was entered
  last            \* history: locals of the latest run_pipeline_cycle call

vars == <<registers, memory, pc, cycle_count, program, stages, forwarding, issue_width,
          error, sim, max_cycles, committed, registers0, last>>

Machine ==
  [registers |-> registers, memory |-> memory, pc |-> pc, cycle_count |-> cycle_count,
   program |-> program, stages |-> stages, forwarding |-> forwarding,
   issue_width |-> issue_width, error |-> error, in_range |-> TRUE,
   committed |-> committed, wb_writes |-> {}]

NoCycle(w) ==
  [ran |-> FALSE, hazard |-> FALSE, pc_start |-> 0,
   decoded_instructions |-> [i \in 1..w |-> PyNone],
   fetched_instructions |-> NoneList(w),
   ex_details |-> EmptyDicts(w), mem_details |-> EmptyDicts(w),
   if_start |-> NoneList(w), id_start |-> [i \in 1..w |-> PyNone],
   ex_start |-> EmptyDicts(w), mem_start |-> EmptyDicts(w),
   registers_start |-> <<>>, memory_start |-> <<>>,
   wb_writes |-> {}, wb_registers |-> <<>>,
   ex_details_1 |-> EmptyDicts(w), ex_details_2 |-> EmptyDicts(w), hazard_1 |-> FALSE,
   pc_start_1 |-> 0, pc_start_2 |-> 0,
   forwarding_start |-> [EX_MEM |-> [i \in 1..w |-> PyNone],
                         MEM_WB |-> [i \in 1..w |-> PyNone]]]

\* ComprehensivePipelineProcessor.__init__
Construct(memory_size, register_count, width) ==
  /\ memory = [a \in 0..(memory_size - 1) |-> 0]
  /\ registers = [r \in 0..(register_count - 1) |-> 0]
  /\ issue_width = width
  /\ stages = [s \in StageNames |-> PipelineStage(width)]
  /\ pc = 0
  /\ cycle_count = 0
  /\ program = <<>>
  /\ forwarding = [EX_MEM |-> [i \in 1..width |-> PyNone],
                   MEM_WB |-> [i \in 1..width |-> PyNone]]
  /\ error = "none"
  /\ sim = "idle"
  /\ max_cycles = 0
  /\ committed = {}
  /\ registers0 = [r \in 0..(register_count - 1) |-> 0]
  /\ last = NoCycle(width)

Init == \E width \in 1..MaxIssueWidth : Construct(MemorySize, RegisterCount, width)

\* a processor constructed with a register file smaller than the 32
\* registers an instruction word can name
InitSmall == \E width \in 1..MaxIssueWidth : Construct(MemorySize, SmallRegisterCount, width)

\* the processor main constructs: ComprehensivePipelineProcessor()
InitRef == Construct(DefaultMemorySize, RegisterCount, DefaultIssueWidth)

\* a processor of either register file size, before any call
InitSetup ==
  \E width \in 1..MaxIssueWidth : \E register_count \in {SmallRegisterCount, RegisterCount} :
    Construct(MemorySize, register_count, width)

\* ================================================================= inputs
\* instruction words, built field by field (the layout decode takes apart)
EncR(funct, rd, rs, rt, shamt) == <<rs * 32 + rt, rd * 2048 + shamt * 64 + funct>>
EncI(opcode, rt, rs, imm16) == <<opcode * 1024 + rs * 32 + rt, imm16>>
EncJ(opcode, address) == <<opcode * 1024 + address \div 65536, address % 65536>>

ADD_1_2_2 == EncR(32, 1, 2, 2, 0)      \* ADD  r1, r2, r2
ADD_3_1_1 == EncR(32, 3, 1, 1, 0)      \* ADD  r3, r1, r1
ADDI_1_4096 == EncI(8, 1, 0, 4096)     \* ADDI r1, r0, 4096 (bits 15..11 of the word = 2)
ADDI_1_7 == EncI(8, 1, 0, 7)           \* ADDI r1, r0, 7
ADDI_0_5 == EncI(8, 0, 0, 5)           \* ADDI r0, r0, 5
LW_2_1 == EncI(35, 2, 0, 1)            \* LW   r2, 1(r0)
J_0 == EncJ(2, 0)                      \* J    0
NOP == <<0, 0>>                        \* SLL  r0, r0, 0

Words == {ADD_1_2_2, ADD_3_1_1, ADDI_1_4096, ADDI_1_7, ADDI_0_5, LW_2_1, J_0, NOP}

SeqsUpTo(S, n) == UNION {[1..k -> S] : k \in 0..n}
\* every program of up to MaxProgLen words, and every program of MaxProgLen
\* words followed by one more instruction that reads register 1
Consumers == {ADD_3_1_1}
Programs ==
  SeqsUpTo(Words, MaxProgLen)
    \cup {Append(p, w) : p \in [1..MaxProgLen -> Words], w \in Consumers}
ShortPrograms == SeqsUpTo(Words, MaxShortLen)

\* the runs of simulate that are explored: every program with the largest
\* cap, every short program with every cap
Runs == (Programs \X {MaxCycles}) \cup (ShortPrograms \X (0..MaxCycles))

\* one-instruction programs holding an R-class instruction, every funct of
\* the decoder's table
ALUPrograms ==
  {<<EncR(funct, rd, rs, rt, shamt)>> :
     funct \in DOMAIN R_TYPE_MAP, rd \in {1, 2}, rs \in {1, 2}, rt \in {2, 3},
     shamt \in {0, 2}}

BEQ_0_0_1 == EncI(4, 0, 0, 1)          \* BEQ  r0, r0, +1
BEQ_1_2_2 == EncI(4, 2, 1, 2)          \* BEQ  r1, r2, +2
BEQ_0_0_back == EncI(4, 0, 0, 65533)   \* BEQ  r0, r0, -3
J_2 == EncJ(2, 2)                      \* J    2
JAL_1 == EncJ(3, 1)                    \* JAL  1
ADDI_1_1_1 == EncI(8, 1, 1, 1)         \* ADDI r1, r1, 1

\* programs around taken and untaken branches and jumps, with a register
\* writer before them and a reader of that register after them
BranchWords == {BEQ_0_0_1, BEQ_1_2_2, BEQ_0_0_back, J_2, JAL_1, ADDI_1_1_1, ADD_3_1_1}
BranchPrograms ==
  SeqsUpTo(BranchWords, MaxProgLen)
    \cup {Append(p, w) : p \in [1..MaxProgLen -> BranchWords], w \in Consumers}

LW_3_4_r1 == EncI(35, 3, 1, 4)         \* LW   r3, 4(r1)
LW_1_0_r3 == EncI(35, 1, 3, 0)         \* LW   r1, 0(r3)
LW_0_2 == EncI(35, 0, 0, 2)            \* LW   r0, 2(r0)
LW_2_neg == EncI(35, 2, 0, 65535)      \* LW   r2, -1(r0)
SW_2_0 == EncI(43, 2, 0, 0)            \* SW   r2, 0(r0)
SW_3_3_r1 == EncI(43, 3, 1, 3)         \* SW   r3, 3(r1)
SW_2_5 == EncI(43, 2, 0, 5)            \* SW   r2, 5(r0)

\* programs of loads and stores, their addresses inside the memory, at its
\* two ends, and outside it
MemWords == {LW_2_1, LW_3_4_r1, LW_1_0_r3, LW_0_2, LW_2_neg, SW_2_0, SW_3_3_r1, SW_2_5}
MemPrograms == SeqsUpTo(MemWords, MaxProgLen)

ADD_1_6_6 == EncR(32, 1, 6, 6, 0)      \* ADD  r1, r6, r6
ADD_6_1_1 == EncR(32, 6, 1, 1, 0)      \* ADD  r6, r1, r1
LW_6_1 == EncI(35, 6, 0, 1)            \* LW   r6, 1(r0)

\* programs naming register 6 as a source, as a destination, and register 31
\* through JAL, next to instructions that stay below register 4
SmallWords == {ADD_1_6_6, ADD_6_1_1, LW_6_1, JAL_1, ADDI_1_7, ADD_3_1_1}
SmallPrograms == SeqsUpTo(SmallWords, MaxProgLen)

UNK_R_1_2_3 == EncR(1, 1, 2, 3, 0)      \* opcode 0, funct 1: rd = 1, rs = 2, rt = 3
UNK_12_5 == EncI(12, 5, 0, 0)           \* opcode 12 (0x30050000): rt = 5
UNK_63_1_2 == EncI(63, 1, 2, 7)         \* opcode 63: rt = 1, rs = 2

\* programs of words with an unmapped opcode or funct, next to a register
\* writer, a reader and a store
UnknownWords == {UNK_R_1_2_3, UNK_12_5, UNK_63_1_2, ADDI_1_7, ADD_3_1_1, SW_2_0}
UnknownPrograms == SeqsUpTo(UnknownWords, MaxProgLen)

BNE_1_2_1 == EncI(5, 2, 1, 1)          \* BNE  r1, r2, +1
BLTZ_1_0 == EncI(1, 0, 1, 0)           \* BLTZ r1, +0 (bits 5..0 of the word = 0)
BGEZ_2_1 == EncI(1, 0, 2, 1)           \* BGEZ r2, +1 (bits 5..0 of the word # 0)

\* programs over one word of every kind: the instructions that write no
\* register next to the ones that write one
FrameWords ==
  {SW_2_0, BEQ_0_0_1, BNE_1_2_1, BLTZ_1_0, BGEZ_2_1, J_2, UNK_63_1_2,
   ADD_3_1_1, ADDI_1_7, LW_2_1, JAL_1}
FramePrograms == SeqsUpTo(FrameWords, MaxProgLen)

\* programs without branch or jump: register writers, a reader of what they
\* write, a load, a store, an unmapped word and the all-zero word
StraightWords == {ADDI_1_7, ADD_1_2_2, ADD_3_1_1, LW_2_1, SW_2_0, UNK_63_1_2, NOP}
StraightPrograms ==
  SeqsUpTo(StraightWords, MaxProgLen)
    \cup {Append(p, w) : p \in [1..MaxProgLen -> StraightWords], w \in Consumers}
\* every such program with the largest cap, the short ones with every cap
StraightRuns ==
  (StraightPrograms \X {MaxCycles}) \cup (SeqsUpTo(StraightWords, MaxShortLen) \X (0..MaxCycles))

\* the sample program of main, word by word
ReferenceProgram ==
  <<
    <<13314, 0>>,       \* 0x34020000
    <<8212, 10>>,       \* 0x2014000A
    <<14399, 1>>,       \* 0x383F0001
    <<12293, 0>>,       \* 0x30050000
    <<36000, 0>>,       \* 0x8CA00000
    <<36015, 0>>,       \* 0x8CAF0000
    <<8258, 1>>,        \* 0x20420001
    <<594, 16427>>,     \* 0x0252402B
    <<6048, 9>>,        \* 0x17A00009
    <<36016, 0>>,       \* 0x8CB00000
    <<714, 20523>>,     \* 0x02CA502B
    <<4544, 3>>,        \* 0x11C00003
    <<522, 20517>>,     \* 0x020A5025
    <<2048, 7>>,        \* 0x08000007
    <<719, 26666>>,     \* 0x02CF682A
    <<4576, 65529>>,    \* 0x11E0FFF9
    <<527, 32800>>,     \* 0x020F8020
    <<2048, 7>>,        \* 0x08000007
    <<0, 0>>            \* 0x00000000
  >>

\* initial_registers of main
ReferenceRegisters ==
  [r \in {2, 20, 31, 5} |-> CASE r = 2 -> 0 [] r = 20 -> 10 [] r = 31 -> 1 [] r = 5 -> 0]

\* the list main assigns to memory[:10]
ReferenceMemory == <<16, 15, 5, 9, 32, 25, 4, 30, 9, 11>>

\* arguments of set_registers: dicts register index -> value
RegisterInits ==
  {[r \in {-1, 0, 1, 2, 3, 32} |->
      CASE r = 1 -> -3 [] r = 2 -> 10 [] r = 3 -> 20 [] OTHER -> 9]}

\* dicts of up to MaxDictSize entries whose indices are negative, 0, inside
\* either register file, and at or above its size; the entries of one dict
\* carry the same value
SetupKeys == {-1, 0, 1, 3, 4, 31, 32}
SetupValues == {7, -3}
SetupDicts ==
  {[reg \in K |-> value] :
     K \in {S \in SUBSET SetupKeys : Cardinality(S) <= MaxDictSize}, value \in SetupValues}

\* instruction words given to the decoder: every opcode class, mapped and
\* unmapped opcodes and functs, bit 15 of the word set and clear
DecodeOpcodes == {0, 1, 2, 3, 4, 5, 8, 12, 13, 14, 35, 43, 63}
DecodeHighs == {opcode * 1024 + f : opcode \in DecodeOpcodes, f \in {0, 34}}
DecodeLows == {0, 2, 32, 43, 63, 2080, 32767, 32768, 32800, 65535}
DecodeWords == DecodeHighs \X DecodeLows
DecodeInputs(width) ==
  {[i \in 1..width |-> IF i = k THEN Some(w) ELSE None] : w \in DecodeWords, k \in {1, width}}
    \cup {NoneList(width)}

\* lists assigned to memory[:n]
MemoryInits == {<<16, 15, 5>>}

\* ================================================================ actions
\* SetRegisters without the test reg != 0
SetRegisters_AcceptsZero(initial_values) ==
  /\ sim = "idle"
  /\ registers' = [reg \in DOMAIN registers |->
                     IF reg \in DOMAIN initial_values
                        /\ 0 <= reg /\ reg < PyLen(registers)
                       THEN initial_values[reg]
                       ELSE registers[reg]]
  /\ UNCHANGED <<memory, pc, cycle_count, program, stages, forwarding, issue_width,
                 error, sim, max_cycles, committed, registers0, last>>

\* set_registers(initial_values)
SetRegisters(initial_values) ==
  /\ sim = "idle"
  /\ registers' = [reg \in DOMAIN registers |->
                     IF reg \in DOMAIN initial_values
                        /\ 0 <= reg /\ reg < PyLen(registers) /\ reg # 0
                       THEN initial_values[reg]
                       ELSE registers[reg]]
  /\ UNCHANGED <<memory, pc, cycle_count, program, stages, forwarding, issue_width,
                 error, sim, max_cycles, committed, registers0, last>>

\* decode_stage(instructions), called on its own; last keeps the argument
\* and the returned list
DecodeStage(instructions) ==
  /\ sim = "idle"
  /\ stages' = decode_stage(Machine, instructions).stages
  /\ last' = [last EXCEPT !.if_start = instructions,
                          !.decoded_instructions = DecodeAll(instructions)]
  /\ UNCHANGED <<registers, memory, pc, cycle_count, program, forwarding, issue_width,
                 error, sim, max_cycles, committed, registers0>>

\* processor.memory[:n] = values, n = len(values) <= memory_size
PreloadMemory(values) ==
  /\ sim = "idle"
  /\ Len(values) <= PyLen(memory)
  /\ memory' = [a \in DOMAIN memory |-> IF a < Len(values) THEN values[a + 1] ELSE memory[a]]
  /\ UNCHANGED <<registers, pc, cycle_count, program, stages, forwarding, issue_width,
                 error, sim, max_cycles, committed, registers0, last>>

\* simulate(program, max_cycles): entry
Simulate(prog, cap) ==
  /\ sim = "idle"
  /\ sim' = "running"
  /\ program' = prog
  /\ max_cycles' = cap
  /\ registers0' = registers
  /\ UNCHANGED <<registers, memory, pc, cycle_count, stages, forwarding, issue_width,
                 error, committed, last>>

\* LoopCondition that does not look at the Writeback latch
LoopCondition_SkipsWB ==
  \/ pc < Len(program)
  \/ \E s \in StageNames \ {"WB"} : \E i \in 1..Len(stages[s].instructions) :
       stages[s].instructions[i] # None

\* the condition of the while loop of simulate
LoopCondition ==
  \/ pc < Len(program)
  \/ \E s \in StageNames : \E i \in 1..Len(stages[s].instructions) :
       stages[s].instructions[i] # None

\* CapReached that lets the cycle at the cap run
CapReached_OffByOne == cycle_count > max_cycles

\* the test that breaks out of the loop: self.cycle_count >= max_cycles
CapReached == cycle_count >= max_cycles

\* history: the register file as the Writeback step of the coming cycle
\* leaves it (Writeback is the first step of run_pipeline_cycle)
RegistersAfterWriteBack ==
  write_back_stage_func([Machine EXCEPT !.cycle_count = @ + 1],
                        stages["MEM"].details).registers

\* simulate: one iteration of the loop that reaches run_pipeline_cycle
RunPipelineCycle ==
  /\ sim = "running"
  /\ ~(~LoopCondition \/ CapReached)
  /\ \E r \in {run_pipeline_cycle(Machine)} :
     /\ r.m.in_range
     /\ registers' = r.m.registers
     /\ memory' = r.m.memory
     /\ pc' = r.m.pc
     /\ cycle_count' = r.m.cycle_count
     /\ stages' = r.m.stages
     /\ forwarding' = r.m.forwarding
     /\ error' = r.m.error
     /\ committed' = r.m.committed
     /\ sim' = IF r.m.error # "none" THEN "raised" ELSE "running"
     /\ last' = IF r.m.error # "none" THEN last
                ELSE [ran |-> TRUE, hazard |-> r.hazard, pc_start |-> pc,
                      decoded_instructions |-> r.decoded_instructions,
                      fetched_instructions |-> r.fetched_instructions,
                      ex_details |-> r.checked.stages["EX"].details,
                      mem_details |-> r.checked.stages["MEM"].details,
                      if_start |-> stages["IF"].instructions,
                      id_start |-> DecodeLatchOutput(Machine),
                      ex_start |-> stages["EX"].details,
                      mem_start |-> stages["MEM"].details,
                      registers_start |-> registers,
                      memory_start |-> memory,
                      wb_writes |-> r.m.wb_writes,
                      wb_registers |-> RegistersAfterWriteBack,
                      ex_details_1 |-> last.ex_details,
                      ex_details_2 |-> last.ex_details_1,
                      hazard_1 |-> last.hazard,
                      pc_start_1 |-> last.pc_start,
                      pc_start_2 |-> last.pc_start_1,
                      forwarding_start |-> forwarding]
  /\ UNCHANGED <<program, issue_width, max_cycles, registers0>>

\* simulate: the loop ends (pipeline drained, or the cap is reached) and the
\* call returns
SimulateReturn ==
  /\ sim = "running"
  /\ ~LoopCondition \/ CapReached
  /\ sim' = "returned"
  /\ UNCHANGED <<registers, memory, pc, cycle_count, program, stages, forwarding,
                 issue_width, error, max_cycles, committed, registers0, last>>

Next ==
  \/ \E initial_values \in RegisterInits : SetRegisters(initial_values)
  \/ \E values \in MemoryInits : PreloadMemory(values)
  \/ \E run \in Runs : Simulate(run[1], run[2])
  \/ RunPipelineCycle
  \/ SimulateReturn

Spec == Init /\ [][Next]_vars

\* the same operations, simulate being given the one-instruction R-class
\* programs
NextALU ==
  \/ \E initial_values \in RegisterInits : SetRegisters(initial_values)
  \/ \E values \in MemoryInits : PreloadMemory(values)
  \/ \E prog \in ALUPrograms : Simulate(prog, MaxCycles)
  \/ RunPipelineCycle
  \/ SimulateReturn

SpecALU == Init /\ [][NextALU]_vars

\* the same operations, simulate being given the branch and jump programs
NextBranch ==
  \/ \E initial_values \in RegisterInits : SetRegisters(initial_values)
  \/ \E values \in MemoryInits : PreloadMemory(values)
  \/ \E prog \in BranchPrograms : Simulate(prog, MaxCycles)
  \/ RunPipelineCycle
  \/ SimulateReturn

SpecBranch == Init /\ [][NextBranch]_vars

\* the same operations, simulate being given the load and store programs
NextMem ==
  \/ \E initial_values \in RegisterInits : SetRegisters(initial_values)
  \/ \E values \in MemoryInits : PreloadMemory(values)
  \/ \E prog \in MemPrograms : Simulate(prog, MaxCycles)
  \/ RunPipelineCycle
  \/ SimulateReturn

SpecMem == Init /\ [][NextMem]_vars

\* the same operations on the processor with the small register file
NextSmall ==
  \/ \E initial_values \in RegisterInits : SetRegisters(initial_values)
  \/ \E values \in MemoryInits : PreloadMemory(values)
  \/ \E prog \in SmallPrograms : Simulate(prog, MaxCycles)
  \/ RunPipelineCycle
  \/ SimulateReturn

SpecSmall == InitSmall /\ [][NextSmall]_vars

\* the same operations, simulate being given the programs with unmapped words
NextUnknown ==
  \/ \E initial_values \in RegisterInits : SetRegisters(initial_values)
  \/ \E values \in MemoryInits : PreloadMemory(values)
  \/ \E prog \in UnknownPrograms : Simulate(prog, MaxCycles)
  \/ RunPipelineCycle
  \/ SimulateReturn

SpecUnknown == Init /\ [][NextUnknown]_vars

\* set_registers and simulate on the programs over every kind of instruction
NextFrame ==
  \/ \E initial_values \in RegisterInits : SetRegisters(initial_values)
  \/ \E prog \in FramePrograms : Simulate(prog, MaxCycles)
  \/ RunPipelineCycle
  \/ SimulateReturn

SpecFrame == Init /\ [][NextFrame]_vars

\* the test of the loop of simulate passes: one more cycle is run
LoopContinues == sim = "running" /\ ~(~LoopCondition \/ CapReached)

\* set_registers and simulate on the programs without branch or jump; once
\* simulate is called its loop keeps running: while the test of the loop
\* passes a cycle is eventually run (weak fairness of RunPipelineCycle, its
\* enabling condition LoopContinues written out), and when the test fails
\* the call eventually returns
NextDrain ==
  \/ \E initial_values \in RegisterInits : SetRegisters(initial_values)
  \/ \E run \in StraightRuns : Simulate(run[1], run[2])
  \/ RunPipelineCycle
  \/ SimulateReturn

SpecDrain ==
  /\ Init
  /\ [][NextDrain]_vars
  /\ ([]<>(~LoopContinues) \/ []<><<RunPipelineCycle>>_vars)
  /\ WF_vars(SimulateReturn)

\* the run of main: set_registers, the memory preload and simulate with the
\* sample program, on the processor main constructs
NextRef ==
  \/ SetRegisters(ReferenceRegisters)
  \/ PreloadMemory(ReferenceMemory)
  \/ Simulate(ReferenceProgram, ReferenceMaxCycles)
  \/ RunPipelineCycle
  \/ SimulateReturn

SpecRef == InitRef /\ [][NextRef]_vars

\* calls of set_registers, one after another, on a processor of either
\* register file size
NextSetup == \E initial_values \in SetupDicts : SetRegisters(initial_values)

SpecSetup == InitSetup /\ [][NextSetup]_vars

\* calls of decode_stage, one after another, each with a list of issue_width
\* entries of which at most one is an instruction word
NextDecode == \E instructions \in DecodeInputs(issue_width) : DecodeStage(instructions)

SpecDecode == Init /\ [][NextDecode]_vars

\* ================================================================ claims
Slots == 1..issue_width
OneInstruction == Len(program) = 1
TheInstruction == decode(program[1])
IsBranchOrJump(decoded) == decoded.mnemonic \in {"J", "JAL", "BEQ", "BNE", "BLTZ", "BGEZ"}
Returned == sim = "returned"
\* the cap leaves room for one instruction to pass the five stages and drain
CapLargeEnough == max_cycles >= 6

\* C1: in every reachable state, after set_registers and after any number of
\* run_pipeline_cycle steps of any program, registers[0] is 0.
C1_RegisterZero == registers[0] = 0

\* an instruction whose written register is register 0 and whose result is
\* not 0 has passed Writeback
C1_Witness ==
  \E i \in Slots :
    LET data == stages["WB"].details[i] IN
    /\ Truthy(data)
    /\ data.decoded.mnemonic = "ADDI"
    /\ data.decoded.rt = 0
    /\ data.alu_result = Some(5)

\* C2: simulate on a fresh processor returns with cycle_count <= max_cycles,
\* and a program that never drains (every word is the jump to word 0)
\* returns with cycle_count = max_cycles exactly.
C2_TerminationBound ==
  Returned =>
    /\ cycle_count <= max_cycles
    /\ (program # <<>> /\ \A k \in 1..Len(program) : program[k] = J_0)
         => cycle_count = max_cycles

\* the self-jump program was stopped by a cap it could only reach by looping
C2_Witness ==
  /\ Returned
  /\ program = <<J_0>>
  /\ max_cycles = 7
  /\ cycle_count = 7

\* C3 as stated: a single instruction that is neither a branch nor a jump,
\* issue width 2, large enough cap: simulate returns with cycle_count = 5.
C3_Original ==
  (Returned /\ OneInstruction /\ issue_width = 2 /\ CapLargeEnough
     /\ ~IsBranchOrJump(TheInstruction))
    => cycle_count = 5

\* C3 amended: such a run returns with cycle_count = 6; the instruction is
\* in the Writeback latch at the end of cycle 5 and a sixth cycle runs to
\* empty that latch.
C3_DrainDepth ==
  (Returned /\ OneInstruction /\ issue_width = 2 /\ CapLargeEnough
     /\ ~IsBranchOrJump(TheInstruction))
    => cycle_count = 6

C3_Witness ==
  /\ Returned
  /\ program = <<ADD_1_2_2>>
  /\ issue_width = 2
  /\ max_cycles = MaxCycles
  /\ cycle_count = 6

\* the value the named operation yields on the operand values a and b
AluValue(decoded, a, b) ==
  CASE decoded.mnemonic = "ADD" -> a + b
    [] decoded.mnemonic = "SUB" -> a - b
    [] decoded.mnemonic = "AND" -> BitAnd(a, b)
    [] decoded.mnemonic = "OR" -> BitOr(a, b)
    [] decoded.mnemonic = "NOR" -> -BitOr(a, b) - 1
    [] decoded.mnemonic = "XOR" -> BitXor(a, b)
    [] decoded.mnemonic = "SLT" -> IF a < b THEN 1 ELSE 0
    [] decoded.mnemonic = "SGT" -> IF a > b THEN 1 ELSE 0
    [] decoded.mnemonic = "SLL" -> b * 2^decoded.shamt
    [] decoded.mnemonic = "SRL" -> b \div 2^decoded.shamt

WrittenRegister(decoded) ==
  IF decoded.mnemonic \in R_ALU THEN decoded.rd
  ELSE IF decoded.mnemonic \in I_ALU \cup {"LW"} THEN decoded.rt
  ELSE 0

\* C5: when the later instruction of a decode group has a source register
\* equal to the nonzero register the earlier instruction of the group
\* writes, the cycle that decodes the group reports the hazard flag.
C5_SameGroupStall ==
  last.ran =>
    \A i \in Slots : \A j \in Slots :
      (/\ i < j
       /\ Truthy(last.decoded_instructions[i])
       /\ Truthy(last.decoded_instructions[j])
       /\ WrittenRegister(last.decoded_instructions[i]) # 0
       /\ WrittenRegister(last.decoded_instructions[i]) \in
            get_source_registers(last.decoded_instructions[j]))
      => last.hazard

\* C6: when an instruction latched in Execute or Memory (as they stand after
\* this cycle's Memory and Execute steps) writes a nonzero register that is
\* a source register of a freshly decoded instruction, the hazard flag is
\* set in that cycle.
C6_ProducerStall ==
  last.ran =>
    \A i \in Slots : \A k \in Slots : \A latch \in {last.ex_details, last.mem_details} :
      (/\ Truthy(last.decoded_instructions[i])
       /\ Truthy(latch[k])
       /\ WrittenRegister(latch[k].decoded) # 0
       /\ WrittenRegister(latch[k].decoded) \in
            get_source_registers(last.decoded_instructions[i]))
      => last.hazard

AllEmpty(stage) ==
  /\ stage.instructions = NoneList(issue_width)
  /\ stage.details = EmptyDicts(issue_width)

\* C7: in a cycle with the hazard flag set, at the end of the cycle all five
\* stage latches are entirely empty, the program counter has its value of
\* the start of the cycle, and no program word was fetched.
C7_HazardFlush ==
  (last.ran /\ last.hazard) =>
    /\ \A s \in StageNames : AllEmpty(stages[s])
    /\ pc = last.pc_start
    /\ last.fetched_instructions = NoneList(issue_width)

\* a hazard cycle that found an instruction in the Execute latch and had
\* words left to fetch
C7_Witness ==
  /\ last.ran
  /\ last.hazard
  /\ \E k \in Slots : Truthy(last.ex_details[k])
  /\ pc < Len(program)

\* a step that is one completed run_pipeline_cycle call
CycleStep == cycle_count' = cycle_count + 1 /\ error' = "none"

\* the destination the forwarding table records for an Execute result
Destination(data) == RdOrRt(data.decoded)
ProducesFor(details, reg) ==
  {i \in 1..Len(details) : Truthy(details[i]) /\ Destination(details[i]) = reg}
FirstValueFor(details, reg) == details[SetMin(ProducesFor(details, reg))].alu_result
ArchitecturalRegisters == 1..(RegisterCount - 1)

\* C8 as stated: a value Execute leaves in its latch in cycle N for a
\* nonzero destination R (the only slot of its group with destination R) is
\* what get_register_value(R) returns during cycle N+1 (the state after
\* cycle N) and during cycle N+2 (the state after cycle N+1).
C8_Original ==
  [][CycleStep =>
       /\ \A i \in Slots :
            LET data == stages'["EX"].details[i] IN
            (/\ Truthy(data) /\ data.alu_result # None /\ Destination(data) # 0
             /\ ProducesFor(stages'["EX"].details, Destination(data)) = {i})
              => get_register_value(Machine', Destination(data)) = data.alu_result
       /\ \A i \in Slots :
            LET data == stages["EX"].details[i] IN
            (/\ Truthy(data) /\ data.alu_result # None /\ Destination(data) # 0
             /\ ProducesFor(stages["EX"].details, Destination(data)) = {i})
              => get_register_value(Machine', Destination(data)) = data.alu_result]_vars

\* the nonzero registers named by the results of an Execute latch, and by
\* the records of a generation of the forwarding table
ProducedIn(details) ==
  {Destination(details[i]) : i \in {k \in 1..Len(details) : Truthy(details[k])}} \ {0}
NamedIn(generation) ==
  {generation[i].rd : i \in {k \in 1..Len(generation) : Truthy(generation[k])}} \ {0}

\* C8 amended: for every register R != 0 that is the destination of a
\* result in the Execute latch of the cycle just run (cycle N+1 view), of
\* the cycle before (cycle N+2 view), or of a record that leaves the table
\* in this cycle (cycle N+3 view): get_register_value(R) after the cycle is
\* the result of the first slot of the Execute latch of that cycle whose
\* destination is R; failing that, of the first such slot of the Execute
\* latch of the cycle before; failing that, the register file.  So a value
\* of cycle N is returned during N+1 and N+2 unless a record for R comes
\* before it in this order, and is never answered from its record from N+3
\* on.
C8_ForwardingWindow ==
  [][CycleStep =>
       \A reg \in ProducedIn(stages'["EX"].details) \cup ProducedIn(stages["EX"].details)
                    \cup NamedIn(forwarding.MEM_WB) :
         get_register_value(Machine', reg) =
           IF ProducesFor(stages'["EX"].details, reg) # {}
             THEN FirstValueFor(stages'["EX"].details, reg)
           ELSE IF ProducesFor(stages["EX"].details, reg) # {}
             THEN FirstValueFor(stages["EX"].details, reg)
           ELSE Some(registers'[reg])]_vars

\* a one-cycle-old record hides a two-cycle-old record of the same register
\* that carries another value
C8_Witness ==
  \E i \in Slots : \E j \in Slots :
    /\ Truthy(forwarding.EX_MEM[i])
    /\ Truthy(forwarding.MEM_WB[j])
    /\ forwarding.EX_MEM[i].rd = forwarding.MEM_WB[j].rd
    /\ forwarding.EX_MEM[i].rd # 0
    /\ forwarding.EX_MEM[i].value # None
    /\ forwarding.MEM_WB[j].value # None
    /\ forwarding.EX_MEM[i].value # forwarding.MEM_WB[j].value

RecordsFor(generation, reg) ==
  {i \in 1..Len(generation) : Truthy(generation[i]) /\ generation[i].rd = reg}

\* C9: when the forwarding table holds values for register n != 0,
\* get_register_value(n) returns the one produced most recently in program
\* order: the one-cycle-old generation before the two-cycle-old one, and
\* within a generation the later slot before the earlier slot.
C9_MostRecent ==
  \A reg \in ArchitecturalRegisters :
    /\ RecordsFor(forwarding.EX_MEM, reg) # {}
         => get_register_value(Machine, reg) =
              forwarding.EX_MEM[SetMax(RecordsFor(forwarding.EX_MEM, reg))].value
    /\ (RecordsFor(forwarding.EX_MEM, reg) = {} /\ RecordsFor(forwarding.MEM_WB, reg) # {})
         => get_register_value(Machine, reg) =
              forwarding.MEM_WB[SetMax(RecordsFor(forwarding.MEM_WB, reg))].value

\* C10: every record {R, v} of the forwarding table, R != 0, has been
\* committed (Writeback has written register[R] = v) by the end of the cycle
\* in which it leaves the two-cycle-old generation.
C10_CommittedOnExit ==
  [][CycleStep =>
       \A i \in Slots :
         LET fwd == forwarding.MEM_WB[i] IN
         (Truthy(fwd) /\ fwd.rd # 0 /\ fwd.value # None)
           => <<fwd.rd, fwd.value[1]>> \in committed']_vars


\* slots of the Execute results of the latest cycle that hold a taken BEQ,
\* the only branch or jump of its group
TakenBEQ ==
  {i \in Slots :
     /\ Truthy(last.ex_details[i])
     /\ last.ex_details[i].decoded.mnemonic = "BEQ"
     /\ last.ex_details[i].branch_taken
     /\ \A j \in Slots \ {i} :
          Truthy(last.ex_details[j]) => ~IsBranchOrJump(last.ex_details[j].decoded)}

\* number of program words the Fetch step of the latest cycle took
FetchedCount ==
  Cardinality({i \in Slots : last.fetched_instructions[i] # None})

\* C11 as stated: after the cycle in which a BEQ with equal operands
\* resolves in Execute, the program counter is the value it had at the
\* start of that cycle plus the immediate.
C11_Original ==
  (last.ran /\ error = "none")
    => \A i \in TakenBEQ : pc = last.pc_start + last.ex_details[i].decoded.immediate

\* the program counter the Fetch step leaves when it starts at word t: one
\* more for every word of the program it takes, up to the issue width
AfterFetch(t) ==
  IF t >= Len(program) THEN t
  ELSE IF t + issue_width <= Len(program) THEN t + issue_width
  ELSE Len(program)

\* C11 amended: Execute sets the program counter to its value at the start
\* of the cycle plus the immediate, and the Fetch step of the same cycle,
\* which always runs (the flush leaves nothing to stall on), advances it by
\* one for every word it fetches from the target.
C11_BranchTarget ==
  (last.ran /\ error = "none")
    => \A i \in TakenBEQ :
         /\ last.ex_details[i].jump_address
              = Some(last.pc_start + last.ex_details[i].decoded.immediate)
         /\ ~last.hazard
         /\ pc = AfterFetch(last.pc_start + last.ex_details[i].decoded.immediate)
         /\ pc = last.pc_start + last.ex_details[i].decoded.immediate + FetchedCount

\* a taken BEQ resolved and the same cycle fetched from its target
C11_Witness ==
  /\ last.ran /\ error = "none"
  /\ TakenBEQ # {}
  /\ FetchedCount > 0
  /\ pc # last.pc_start


\* a latch that holds nothing
EmptyLatch(stage) ==
  \A i \in Slots : stage.instructions[i] = None /\ ~Truthy(stage.details[i])

\* the latest cycle resolved a taken branch or jump in Execute while the
\* Fetch latch held at least one fetched instruction
SquashedFetch ==
  /\ last.ran /\ error = "none"
  /\ Resolves(last.ex_details)
  /\ \E i \in Slots : last.if_start[i] # None

\* C12: the instructions that are in the Fetch latch when a taken branch or
\* jump resolves in Execute never execute and never change registers or
\* memory: the Decode step of that cycle decodes nothing, and the cycle ends
\* with the Decode, Memory and Writeback latches empty and the Fetch latch
\* holding only what the Fetch step of that cycle took at the new program
\* counter, so only a re-fetch can bring those program words back.
C12_SquashedNeverExecute ==
  SquashedFetch =>
    /\ \A i \in Slots : last.decoded_instructions[i] = PyNone
    /\ EmptyLatch(stages["ID"])
    /\ EmptyLatch(stages["MEM"])
    /\ EmptyLatch(stages["WB"])
    /\ stages["IF"].instructions = last.fetched_instructions
    /\ \A i \in Slots :
         stages["IF"].instructions[i] # None
           => /\ i <= FetchedCount
              /\ pc - FetchedCount >= 0
                   => stages["IF"].instructions[i] = Some(program[pc - FetchedCount + i])

\* a jump resolved while the Fetch latch held the instruction after it
C12_Witness ==
  /\ SquashedFetch
  /\ \E i \in Slots : last.if_start[i] = Some(ADD_3_1_1)
  /\ registers[3] = 0


\* the register write an Execute result commits at Writeback: the ALU
\* result, into the written register when that is not register 0
AluWrites(details) ==
  {<<WrittenRegister(details[i].decoded), details[i].alu_result[1]>> :
     i \in {k \in 1..Len(details) :
              /\ Truthy(details[k])
              /\ details[k].decoded.mnemonic \in R_ALU \cup I_ALU
              /\ WrittenRegister(details[k].decoded) # 0
              /\ details[k].alu_result # None}}

\* the Memory step of the latest cycle processed the Execute results details
PassedMemory(details) ==
  \A i \in 1..Len(details) :
    Truthy(details[i])
      => /\ Truthy(last.mem_details[i])
         /\ last.mem_details[i].decoded = details[i].decoded
         /\ last.mem_details[i].alu_result = details[i].alu_result

\* an instruction Execute always takes: a jump, or a BEQ comparing a
\* register with itself
AlwaysTaken(decoded) ==
  \/ decoded.mnemonic \in {"J", "JAL"}
  \/ decoded.mnemonic = "BEQ" /\ decoded.rs = decoded.rt

\* the group Execute took from the Decode latch in the latest cycle holds an
\* instruction that is always taken
TakenGroup ==
  \E i \in Slots : Truthy(last.id_start[i]) /\ AlwaysTaken(last.id_start[i])

\* the Execute latch holds a result for every instruction of that group
KeptInLatch ==
  /\ Resolves(stages["EX"].details)
  /\ stages["EX"].details = last.ex_details
  /\ \A i \in Slots :
       Truthy(last.id_start[i])
         => /\ Truthy(stages["EX"].details[i])
            /\ stages["EX"].details[i].decoded = last.id_start[i]

\* C13 as stated: the results Execute computes in the cycle c in which a
\* taken branch or jump resolves are kept in the Execute latch, pass through
\* Memory in cycle c+1 and commit their register writes in Writeback in
\* cycle c+2.
C13_Original ==
  (last.ran /\ error = "none")
    => /\ TakenGroup => KeptInLatch
       /\ Resolves(last.ex_details_1) => PassedMemory(last.ex_details_1)
       /\ Resolves(last.ex_details_2) => AluWrites(last.ex_details_2) \subseteq last.wb_writes

\* C13 amended: the same, the commit in cycle c+2 holding when cycle c+1
\* reports no data hazard; when the group decoded in cycle c+1 (fetched at
\* the target) reads a register that a result of the branch group writes,
\* the hazard flush of cycle c+1 clears the Memory latch and cycle c+2
\* commits nothing.
C13_ResultsDrain ==
  (last.ran /\ error = "none")
    => /\ TakenGroup => KeptInLatch
       /\ Resolves(last.ex_details_1) => PassedMemory(last.ex_details_1)
       /\ (Resolves(last.ex_details_2) /\ ~last.hazard_1)
            => AluWrites(last.ex_details_2) \subseteq last.wb_writes
       /\ (Resolves(last.ex_details_2) /\ last.hazard_1) => last.wb_writes = {}

\* the ADDI issued together with a taken branch committed two cycles later
C13_Witness ==
  /\ last.ran /\ error = "none"
  /\ Resolves(last.ex_details_2)
  /\ ~last.hazard_1
  /\ <<1, 1>> \in AluWrites(last.ex_details_2)
  /\ <<1, 1>> \in last.wb_writes


\* an address inside the memory
InBounds(a) == 0 <= a /\ a < PyLen(memory)
\* a program without stores: memory keeps the preloaded words
NoStore == \A k \in 1..Len(program) : decode(program[k]).mnemonic # "SW"
\* slots of the Memory latch the Writeback step of the latest cycle consumed
\* that hold a load into a register other than register 0, from an address
\* inside the memory
CommittedLoads ==
  {i \in Slots :
     /\ Truthy(last.mem_start[i])
     /\ last.mem_start[i].decoded.mnemonic = "LW"
     /\ last.mem_start[i].decoded.rt # 0
     /\ last.mem_start[i].alu_result # None
     /\ InBounds(last.mem_start[i].alu_result[1])}

\* C14: memory round trip.  In a program without stores, every LW rt,
\* imm(rs), rt != 0, whose effective address a is inside the memory has
\* register[rt] equal to the word preloaded at a once its Writeback is done;
\* for a one-instruction program the address is the initial register[rs]
\* plus imm and register[rt] holds the preloaded word when simulate returns.
C14_MemoryRoundTrip ==
  /\ (last.ran /\ error = "none" /\ NoStore)
       => \A i \in CommittedLoads :
            /\ <<last.mem_start[i].decoded.rt, memory[last.mem_start[i].alu_result[1]]>>
                 \in last.wb_writes
            /\ (\A j \in Slots :
                  (j > i /\ Truthy(last.mem_start[j]))
                    => WrittenRegister(last.mem_start[j].decoded) # last.mem_start[i].decoded.rt)
                 => last.wb_registers[last.mem_start[i].decoded.rt]
                      = memory[last.mem_start[i].alu_result[1]]
  /\ (Returned /\ OneInstruction /\ CapLargeEnough
        /\ TheInstruction.mnemonic = "LW" /\ TheInstruction.rt # 0
        /\ InBounds(registers0[TheInstruction.rs] + TheInstruction.immediate))
       => registers[TheInstruction.rt]
            = memory[registers0[TheInstruction.rs] + TheInstruction.immediate]

\* LW r3, 4(r1) with r1 = -3 has loaded the word preloaded at address 1
C14_Witness ==
  /\ Returned
  /\ program = <<LW_3_4_r1>>
  /\ registers0[1] = -3
  /\ memory[1] = 15
  /\ registers[3] = 15


\* C15: whatever register_count the processor is constructed with, an
\* instruction naming a register at or above register_count (rs, rt, rd, or
\* the register 31 of JAL) never makes a cycle fail: run_pipeline_cycle
\* never leaves with an exception.
C15_NoRegisterFault == error = "none" /\ sim # "raised"


\* slots of the Execute latch the Memory step of the latest cycle consumed
\* that hold the instruction named, its address computed
AccessSlots(mnemonic) ==
  {i \in Slots :
     /\ Truthy(last.ex_start[i])
     /\ last.ex_start[i].decoded.mnemonic = mnemonic
     /\ last.ex_start[i].alu_result # None}
AddressOf(i) == last.ex_start[i].alu_result[1]
\* the stores of that group to the word x, in slot order
StoresTo(x) == {j \in AccessSlots("SW") : AddressOf(j) = x}
\* the word x as the stores of the slots before slot i leave it; the value
\* stored is the register file as Writeback left it at the start of the cycle
WordBefore(x, i) ==
  IF {j \in StoresTo(x) : j < i} = {} THEN last.memory_start[x]
  ELSE last.wb_registers[last.ex_start[SetMax({j \in StoresTo(x) : j < i})].decoded.rt]

\* C16: in the Memory step an LW whose address is outside the memory yields
\* the address itself, an LW whose address is inside yields the word at the
\* address; an SW whose address is inside sets that word to register[rt] and
\* changes no other word, an SW whose address is outside changes no word;
\* none of them raises.
C16_MemoryStage ==
  /\ error = "none"
  /\ last.ran
       => /\ \A i \in AccessSlots("LW") :
               last.mem_details[i].mem_result =
                 IF InBounds(AddressOf(i)) THEN Some(WordBefore(AddressOf(i), i))
                 ELSE Some(AddressOf(i))
          /\ \A x \in DOMAIN memory : memory[x] = WordBefore(x, issue_width + 1)

\* a load from an address outside the memory and a store to a word of the
\* memory have passed the Memory step
C16_Witness ==
  /\ last.ran /\ error = "none"
  /\ \E i \in AccessSlots("LW") :
       ~InBounds(AddressOf(i)) /\ last.mem_details[i].mem_result = Some(AddressOf(i))
  /\ \E x \in DOMAIN memory : StoresTo(x) # {} /\ memory[x] # last.memory_start[x]


\* an opcode/funct pair none of the decoder's tables maps
Unmapped(decoded) ==
  IF decoded.opcode = 0 THEN decoded.funct \notin DOMAIN R_TYPE_MAP
  ELSE decoded.opcode \notin DOMAIN J_TYPE_MAP \cup DOMAIN I_TYPE_MAP
\* slots of a latch that hold an instruction with an unmapped opcode/funct
UnmappedIn(details) ==
  {i \in 1..Len(details) : Truthy(details[i]) /\ Unmapped(details[i].decoded)}
\* slots of a latch that hold any other instruction
MappedIn(details) ==
  {i \in 1..Len(details) : Truthy(details[i]) /\ ~Unmapped(details[i].decoded)}
UnmappedProgram == \A k \in 1..Len(program) : Unmapped(decode(program[k]))

\* C17: a word whose opcode/funct is unmapped decodes to UNKNOWN; Execute
\* gives it no ALU result and no branch, Memory gives it no result and
\* stores nothing, Writeback writes no register for it, the program counter
\* moves only by the words fetched, and no step raises.  A program of such
\* words returns with the register file and memory it was started with.
C17_UnknownNoOp ==
  /\ error = "none"
  /\ \A k \in 1..Len(program) :
       Unmapped(decode(program[k])) => decode(program[k]).mnemonic = "UNKNOWN"
  /\ last.ran
       => /\ \A i \in UnmappedIn(last.ex_details) :
               /\ last.ex_details[i].alu_result = None
               /\ ~last.ex_details[i].branch_taken
               /\ last.ex_details[i].jump_address = None
          /\ \A i \in UnmappedIn(last.ex_start) : last.mem_details[i].mem_result = None
          /\ MappedIn(last.ex_start) = {} => memory = last.memory_start
          /\ MappedIn(last.mem_start) = {} => registers = last.registers_start
          /\ \A w \in last.wb_writes :
               \E i \in MappedIn(last.mem_start) :
                 WrittenRegister(last.mem_start[i].decoded) = w[1]
          /\ pc = last.pc_start + FetchedCount
  /\ (Returned /\ UnmappedProgram)
       => /\ registers = registers0
          /\ pc = Len(program)
          /\ \/ ~last.ran
             \/ memory = last.memory_start

\* a program of two unmapped words has drained, its words having passed
\* every stage
C17_Witness ==
  /\ Returned
  /\ program = <<UNK_R_1_2_3, UNK_63_1_2>>
  /\ registers0[2] = 10
  /\ cycle_count >= 5
  /\ registers = registers0


\* the records of both generations of the forwarding table
ForwardingRecords ==
  {forwarding.EX_MEM[i] : i \in {k \in Slots : Truthy(forwarding.EX_MEM[k])}}
    \cup {forwarding.MEM_WB[i] : i \in {k \in Slots : Truthy(forwarding.MEM_WB[k])}}

\* C18: in every reachable state no record of either generation of the
\* forwarding table has destination register 0, and get_register_value(0)
\* is 0 whatever the table holds.
C18_NoZeroDestination ==
  /\ \A fwd \in ForwardingRecords : fwd.rd # 0
  /\ get_register_value(Machine, 0) = Some(0)


\* simulate was entered with the registers and the memory main sets up
ReferenceSetup ==
  /\ program = ReferenceProgram
  /\ max_cycles = ReferenceMaxCycles
  /\ \A r \in DOMAIN ReferenceRegisters : registers0[r] = ReferenceRegisters[r]
  /\ \A r \in DOMAIN registers0 \ DOMAIN ReferenceRegisters : registers0[r] = 0
  /\ \A a \in 1..Len(ReferenceMemory) : memory[a - 1] = ReferenceMemory[a]

\* C19: the reference program, run with the registers and the memory of
\* main and max_cycles = 100, returns because the pipeline has drained, with
\* cycle_count < 100.
C19_ReferenceTerminates ==
  (Returned /\ ReferenceSetup)
    => /\ ~LoopCondition
       /\ cycle_count < ReferenceMaxCycles


\* slots of the Execute results of the latest cycle that hold a JAL
LinkSlots ==
  {i \in Slots :
     Truthy(last.ex_details[i]) /\ last.ex_details[i].decoded.mnemonic = "JAL"}
\* the program counter when Execute reached slot i: the target an earlier
\* slot of the group redirected it to, else its value at the start of the
\* cycle
PcAtSlot(i) ==
  IF i > 1 /\ Truthy(last.ex_details[i - 1]) /\ last.ex_details[i - 1].branch_taken
    THEN last.ex_details[i - 1].jump_address[1]
    ELSE last.pc_start

\* C20 as stated: in every cycle only the Writeback step modifies the
\* register file; the register file at the end of the cycle is the one
\* Writeback left.
C20_Original ==
  (last.ran /\ error = "none") => registers = last.wb_registers

\* C20 amended: the steps after Writeback leave every register unchanged
\* except that the Execute step of a JAL writes the program counter it
\* finds into register 31.
C20_WritebackAndLink ==
  (last.ran /\ error = "none")
    => registers =
         IF LinkSlots = {} THEN last.wb_registers
         ELSE [last.wb_registers EXCEPT ![LinkRegister] = PcAtSlot(SetMax(LinkSlots))]

\* a cycle in which the Execute step of a JAL changed register 31
C20_Witness ==
  /\ last.ran /\ error = "none"
  /\ LinkSlots # {}
  /\ registers[LinkRegister] # last.wb_registers[LinkRegister]


\* C21: set_registers ignores every entry whose index is 0, negative, or at
\* or above register_count (no register changes for it, nothing is raised)
\* and every entry with 1 <= index < register_count sets exactly that
\* register.
C21_SetRegistersFrame ==
  [][\A initial_values \in SetupDicts :
       SetRegisters(initial_values)
         => /\ error' = "none"
            /\ DOMAIN registers' = DOMAIN registers
            /\ \A reg \in DOMAIN registers :
                 registers'[reg] =
                   IF reg \in DOMAIN initial_values /\ 1 <= reg /\ reg < PyLen(registers)
                     THEN initial_values[reg]
                     ELSE registers[reg]]_vars

\* set_registers has written registers 1 and 3 of the small register file,
\* whose indices are inside it, and register 0 is what it was
C21_Witness ==
  /\ sim = "idle"
  /\ PyLen(registers) = SmallRegisterCount
  /\ registers[1] = 7
  /\ registers[3] = -3
  /\ registers[0] = 0

\* C22: decode gives immediate = raw_imm - 65536 when bit 15 of the word is
\* set and immediate = raw_imm otherwise, raw_imm being bits 15..0 of the
\* word; so the immediate lies in -32768..32767.
DecodedWords == {i \in DOMAIN last.if_start : last.if_start[i] # None}

C22_SignExtension ==
  \A i \in DecodedWords :
    LET raw_imm == last.if_start[i][1][2]
        immediate == last.decoded_instructions[i].immediate
    IN /\ raw_imm >= 32768 => immediate = raw_imm - 65536
       /\ raw_imm < 32768 => immediate = raw_imm
       /\ -32768 <= immediate /\ immediate <= 32767

C22_Witness ==
  /\ sim = "idle"
  /\ DecodedWords # {}
  /\ \A i \in DecodedWords :
       /\ last.if_start[i][1][2] = 65535
       /\ stages["ID"].details[i].decoded_instruction.immediate = -1

\* C23: decode is total: every word gives a record whose class is R exactly
\* when opcode = 0, J exactly when opcode is 2 or 3 and I otherwise, and
\* whose mnemonic is a defined mnemonic, UNKNOWN exactly when the
\* opcode/funct pair is in no mapping table; opcode 1 gives BLTZ when
\* funct = 0 and BGEZ otherwise.
Mnemonics ==
  {"ADD", "SUB", "AND", "OR", "NOR", "XOR", "SLT", "SGT", "SLL", "SRL", "ADDI", "XORI",
   "ORI", "LW", "SW", "BNE", "BLTZ", "BGEZ", "BEQ", "JAL", "J", "NOP", "BLTZ_BGEZ",
   "UNKNOWN"}

InNoTable(opcode, funct) ==
  /\ opcode = 0 => funct \notin DOMAIN R_TYPE_MAP
  /\ opcode # 0 => opcode \notin DOMAIN I_TYPE_MAP \cup DOMAIN J_TYPE_MAP

C23_DecodeTotal ==
  /\ sim = "idle" => error = "none"
  /\ \A i \in DecodedWords :
       LET opcode == last.if_start[i][1][1] \div 1024
           funct == last.if_start[i][1][2] % 64
           decoded == last.decoded_instructions[i]
       IN /\ Truthy(decoded)
          /\ decoded.type = "R" <=> opcode = 0
          /\ decoded.type = "J" <=> opcode \in {2, 3}
          /\ decoded.type = "I" <=> opcode \notin {0, 2, 3}
          /\ decoded.mnemonic \in Mnemonics
          /\ decoded.mnemonic = "UNKNOWN" <=> InNoTable(opcode, funct)
          /\ opcode = 1 => decoded.mnemonic = (IF funct = 0 THEN "BLTZ" ELSE "BGEZ")

C23_Witness ==
  /\ sim = "idle"
  /\ DecodedWords # {}
  /\ \A i \in DecodedWords :
       /\ last.if_start[i][1][1] \div 1024 = 3
       /\ stages["ID"].instructions[i] = Some("JAL")
       /\ stages["ID"].details[i].decoded_instruction.type = "J"

\* C24: in every reachable state each of the five stage latches has exactly
\* issue_width slots, in its instruction labels and in its detail records,
\* and each forwarding generation has exactly issue_width entries.
C24_LatchWidth ==
  /\ \A s \in StageNames :
       /\ Len(stages[s].instructions) = issue_width
       /\ Len(stages[s].details) = issue_width
  /\ Len(forwarding.EX_MEM) = issue_width
  /\ Len(forwarding.MEM_WB) = issue_width

C24_Witness ==
  /\ issue_width = MaxIssueWidth
  /\ last.ran
  /\ \A i \in 1..issue_width :
       /\ Truthy(stages["EX"].details[i])
       /\ forwarding.EX_MEM[i] # PyNone

\* the latest cycle completed without a hazard flush and without a taken
\* branch or jump
NoFlush == last.ran /\ error = "none" /\ ~last.hazard /\ ~Resolves(last.ex_details)
\* the stage latches that hold an instruction
Occupied == {s \in StageNames : ~EmptyLatch(stages[s])}
\* the latch an instruction fetched in cycle 1 is in at the end of cycle k
LatchOfCycle(k) ==
  CASE k = 1 -> "IF" [] k = 2 -> "ID" [] k = 3 -> "EX" [] k = 4 -> "MEM" [] k = 5 -> "WB"
\* a run of one instruction that is neither a branch nor a jump: no cycle of
\* it flushes
LoneInstruction ==
  /\ sim \in {"running", "returned"}
  /\ error = "none"
  /\ OneInstruction
  /\ ~IsBranchOrJump(TheInstruction)

\* C25: absent any flush each stage consumes the latch its upstream stage
\* produced in the previous cycle; an instruction placed in the Fetch latch
\* in cycle c is in the Decode latch at the end of c+1, the Execute latch at
\* c+2, the Memory latch at c+3 and the Writeback latch at c+4, commits its
\* register write in cycle c+4, and is never in two latches at the end of
\* one cycle.
C25_StageOrder ==
  /\ NoFlush =>
       /\ \A i \in Slots :
            /\ Truthy(stages["ID"].details[i]) <=> last.if_start[i] # None
            /\ last.if_start[i] # None
                 => stages["ID"].details[i].decoded_instruction = decode(last.if_start[i][1])
            /\ Truthy(stages["EX"].details[i]) <=> Truthy(last.id_start[i])
            /\ Truthy(last.id_start[i]) => stages["EX"].details[i].decoded = last.id_start[i]
            /\ Truthy(stages["MEM"].details[i]) <=> Truthy(last.ex_start[i])
            /\ Truthy(last.ex_start[i])
                 => stages["MEM"].details[i].decoded = last.ex_start[i].decoded
            /\ Truthy(stages["WB"].details[i]) <=> Truthy(last.mem_start[i])
            /\ Truthy(last.mem_start[i])
                 => stages["WB"].details[i].decoded = last.mem_start[i].decoded
       /\ AluWrites(last.mem_start) \subseteq last.wb_writes
  /\ (LoneInstruction /\ cycle_count \in 1..5) =>
       /\ Occupied = {LatchOfCycle(cycle_count)}
       /\ cycle_count < 5 => committed = {}
       /\ (cycle_count = 5 /\ TheInstruction.mnemonic \in R_ALU \cup I_ALU
            /\ WrittenRegister(TheInstruction) # 0)
            => \E w \in last.wb_writes : w[1] = WrittenRegister(TheInstruction)

C25_Witness ==
  /\ NoFlush
  /\ LoneInstruction
  /\ cycle_count = 5
  /\ program = <<ADD_1_2_2>>
  /\ Occupied = {"WB"}
  /\ last.wb_writes # {}

\* number of instructions the Decode step of the latest cycle took from the
\* Fetch latch
DecodedCount == Cardinality({i \in Slots : last.if_start[i] # None})

\* C26: on a hazard the freshly decoded instructions are discarded and not
\* retried: the program counter stays at the word after the discarded
\* group, the next cycle executes and decodes nothing and fetches from that
\* word on, and without a taken branch or jump the program counter never
\* moves back, so only a taken branch or jump can bring the discarded words
\* into the pipeline again.
C26_HazardDiscards ==
  /\ (last.ran /\ error = "none" /\ last.hazard) =>
       /\ pc = last.pc_start
       /\ EmptyLatch(stages["IF"])
       /\ EmptyLatch(stages["ID"])
       /\ DecodedCount > 0
       /\ \A i \in Slots :
            (last.if_start[i] # None /\ pc - DecodedCount >= 0)
              => /\ i <= DecodedCount
                 /\ last.if_start[i] = Some(program[pc - DecodedCount + i])
  /\ (last.ran /\ error = "none" /\ last.hazard_1) =>
       /\ ~last.hazard
       /\ \A i \in Slots :
            /\ ~Truthy(last.id_start[i])
            /\ ~Truthy(last.ex_details[i])
            /\ last.decoded_instructions[i] = PyNone
       /\ pc = AfterFetch(last.pc_start)
  /\ (last.ran /\ error = "none" /\ ~Resolves(last.ex_details)) =>
       /\ pc >= last.pc_start
       /\ \A i \in Slots :
            (last.fetched_instructions[i] # None /\ last.pc_start >= 0)
              => last.fetched_instructions[i] = Some(program[last.pc_start + i])

\* the cycle after a hazard cycle fetched the word after the discarded group
C26_Witness ==
  /\ last.ran /\ error = "none"
  /\ last.hazard_1
  /\ FetchedCount > 0
  /\ last.pc_start > 0
  /\ stages["IF"].instructions[1] = Some(program[last.pc_start + 1])

\* the instructions the claim names as writing no register
Inert(decoded) == decoded.mnemonic \in {"SW", "BEQ", "BNE", "BLTZ", "BGEZ", "J", "UNKNOWN"}
\* the write <<register, value>> is the one Writeback owes the record data
OwedTo(data, write) ==
  \/ /\ data.decoded.mnemonic \in R_ALU
     /\ data.decoded.rd # 0
     /\ write[1] = data.decoded.rd
     /\ data.alu_result = Some(write[2])
  \/ /\ data.decoded.mnemonic \in I_ALU
     /\ data.decoded.rt # 0
     /\ write[1] = data.decoded.rt
     /\ data.alu_result = Some(write[2])
  \/ /\ data.decoded.mnemonic = "LW"
     /\ data.decoded.rt # 0
     /\ write[1] = data.decoded.rt
     /\ data.mem_result = Some(write[2])

\* C27: SW, BEQ, BNE, BLTZ, BGEZ, J and UNKNOWN change no register in any
\* stage; Writeback writes register rd = alu_result only for R-class ALU
\* mnemonics with rd # 0, register rt = alu_result only for ADDI/ORI/XORI
\* with rt # 0, and register rt = mem_result only for LW with rt # 0.
C27_RegisterFrame ==
  (last.ran /\ error = "none") =>
    /\ \A write \in last.wb_writes :
         \E i \in Slots : Truthy(last.mem_start[i]) /\ OwedTo(last.mem_start[i], write)
    /\ \A reg \in DOMAIN registers :
         registers[reg] # last.registers_start[reg]
           => \/ \E write \in last.wb_writes : write[1] = reg
              \/ /\ reg = LinkRegister
                 /\ \E i \in Slots : /\ Truthy(last.id_start[i])
                                     /\ last.id_start[i].mnemonic = "JAL"
    /\ ( /\ \A i \in Slots : Truthy(last.mem_start[i]) => Inert(last.mem_start[i].decoded)
         /\ \A i \in Slots : Truthy(last.id_start[i]) => Inert(last.id_start[i]) )
         => registers = last.registers_start

\* a cycle whose Writeback received a store naming a nonzero rt that holds
\* another value than the store's address, and no register changed
C27_Witness ==
  /\ last.ran /\ error = "none"
  /\ \E i \in Slots :
       /\ Truthy(last.mem_start[i])
       /\ last.mem_start[i].decoded.mnemonic = "SW"
       /\ last.mem_start[i].decoded.rt # 0
       /\ last.mem_start[i].mem_result # Some(registers[last.mem_start[i].decoded.rt])
  /\ registers = last.registers_start

\* the slots of the group Writeback received in the latest cycle that hold a
\* JAL: it resolved in Execute two cycles earlier
LinkCommits ==
  {i \in Slots : Truthy(last.mem_start[i]) /\ last.mem_start[i].decoded.mnemonic = "JAL"}
\* the program counter when Execute reached slot i two cycles earlier
LinkValue(i) ==
  IF i > 1 /\ Truthy(last.ex_details_2[i - 1]) /\ last.ex_details_2[i - 1].branch_taken
    THEN last.ex_details_2[i - 1].jump_address[1]
    ELSE last.pc_start_2
\* no other instruction wrote register 31 since the JAL of slot i resolved:
\* no later JAL in its group, none executed since, and no record of the
\* group Writeback received writes register 31
NoOtherLink(i) ==
  \A j \in Slots :
    /\ (j > i /\ Truthy(last.ex_details_2[j]))
         => last.ex_details_2[j].decoded.mnemonic # "JAL"
    /\ Truthy(last.ex_details_1[j]) => last.ex_details_1[j].decoded.mnemonic # "JAL"
    /\ Truthy(last.mem_start[j]) => WrittenRegister(last.mem_start[j].decoded) # LinkRegister

\* C28: a JAL that resolves in Execute sets register 31 to the program
\* counter held just before the jump overwrote it, and after the JAL's
\* Writeback, two cycles later, register 31 still holds that value if no
\* other instruction wrote register 31 in between.
C28_LinkValue ==
  (last.ran /\ error = "none") =>
    /\ \A i \in LinkSlots :
         (\A j \in LinkSlots : j <= i) => registers[LinkRegister] = PcAtSlot(i)
    /\ \A i \in LinkCommits :
         /\ Truthy(last.ex_details_2[i])
         /\ last.ex_details_2[i].decoded = last.mem_start[i].decoded
         /\ NoOtherLink(i) => last.wb_registers[LinkRegister] = LinkValue(i)

\* the Writeback of a JAL that linked a nonzero program counter
C28_Witness ==
  /\ last.ran /\ error = "none"
  /\ \E i \in LinkCommits :
       /\ NoOtherLink(i)
       /\ LinkValue(i) > 0
       /\ last.wb_registers[LinkRegister] = LinkValue(i)
       /\ pc # LinkValue(i)

\* the record data is the result of an ALU instruction that writes register s
\* at Writeback
AluWriter(data, s) ==
  /\ Truthy(data)
  /\ data.decoded.mnemonic \in R_ALU \cup I_ALU
  /\ WrittenRegister(data.decoded) = s
  /\ data.alu_result # None
WritersBelow(details, s, bound) ==
  {j \in 1..Len(details) : j < bound /\ AluWriter(details[j], s)}
\* a load into register s is among the older instructions not yet committed
LoadPending(i, s) ==
  \/ \E j \in 1..(i - 1) :
       /\ Truthy(last.ex_details[j])
       /\ last.ex_details[j].decoded.mnemonic = "LW"
       /\ last.ex_details[j].decoded.rt = s
  \/ \E j \in Slots :
       /\ Truthy(last.ex_details_1[j])
       /\ last.ex_details_1[j].decoded.mnemonic = "LW"
       /\ last.ex_details_1[j].decoded.rt = s
\* the value register s has after every instruction older than slot i of the
\* group Execute took in the latest cycle: that of the youngest older writer
\* still on its way to Writeback (an earlier slot of the group, else the
\* group executed in the cycle before and not flushed), else the register
\* file as the Writeback step of the cycle left it
OlderValue(i, s) ==
  IF s = 0 THEN 0
  ELSE IF WritersBelow(last.ex_details, s, i) # {}
    THEN last.ex_details[SetMax(WritersBelow(last.ex_details, s, i))].alu_result[1]
  ELSE IF ~last.hazard_1 /\ WritersBelow(last.ex_details_1, s, issue_width + 1) # {}
    THEN last.ex_details_1[SetMax(WritersBelow(last.ex_details_1, s, issue_width + 1))]
           .alu_result[1]
  ELSE last.wb_registers[s]

\* C29: no stale operand reads: an instruction that executes reads, for each
\* source register s, the value s has after all older non-discarded
\* instructions (the value of the youngest older writer of s not yet
\* committed, else the register file), so the result of an R-class ALU
\* instruction is its operation applied to those values.
C29_NoStaleOperand ==
  (last.ran /\ error = "none") =>
    \A i \in Slots :
      ( /\ Truthy(last.ex_details[i])
        /\ last.ex_details[i].decoded.mnemonic \in R_ALU
        /\ ~LoadPending(i, last.ex_details[i].decoded.rs)
        /\ ~LoadPending(i, last.ex_details[i].decoded.rt) )
        => last.ex_details[i].alu_result =
             Some(AluValue(last.ex_details[i].decoded,
                           OlderValue(i, last.ex_details[i].decoded.rs),
                           OlderValue(i, last.ex_details[i].decoded.rt)))

\* C30: a taken branch or jump never discards older work: the instructions
\* that executed in the cycle before the branch resolved (in the Execute
\* latch when the branch's cycle started) still commit their register
\* writes: the Writeback step of the cycle after the branch's cycle makes
\* the writes of their ALU results.
C30_OlderWorkCommits ==
  (last.ran /\ error = "none" /\ Resolves(last.ex_details_1))
    => AluWrites(last.ex_details_2) \subseteq last.wb_writes

\* the records the forwarding table held when the latest cycle started
RecordsAtStart ==
  {last.forwarding_start.EX_MEM[i] :
     i \in {k \in Slots : Truthy(last.forwarding_start.EX_MEM[k])}}
    \cup {last.forwarding_start.MEM_WB[i] :
            i \in {k \in Slots : Truthy(last.forwarding_start.MEM_WB[k])}}
\* the slots Execute computed in the latest cycle
Computed == {i \in Slots : Truthy(last.id_start[i])}
\* no JAL, which writes register 31 in Execute, precedes slot i in its group
NoLinkBefore(i) ==
  \A j \in Computed : j < i => last.id_start[j].mnemonic # "JAL"

\* C31: whenever Execute computes an instruction, neither forwarding
\* generation holds a record whose nonzero destination is one of the
\* instruction's source registers (get_source_registers), so every operand
\* used comes from the register file: an R-class ALU result is the operation
\* applied to the register file values the Writeback step left.
C31_ForwardingUnused ==
  (last.ran /\ error = "none") =>
    \A i \in Computed :
      /\ \A fwd \in RecordsAtStart :
           fwd.rd # 0 => fwd.rd \notin get_source_registers(last.id_start[i])
      /\ (last.id_start[i].mnemonic \in R_ALU /\ NoLinkBefore(i))
           => last.ex_details[i].alu_result =
                Some(AluValue(last.id_start[i],
                              last.wb_registers[last.id_start[i].rs],
                              last.wb_registers[last.id_start[i].rt]))

\* Execute computed an instruction with a nonzero source register while the
\* forwarding table held a record
C31_Witness ==
  /\ last.ran /\ error = "none"
  /\ RecordsAtStart # {}
  /\ \E i \in Computed :
       /\ last.id_start[i].mnemonic \in R_ALU
       /\ last.id_start[i].rs # 0
       /\ last.wb_registers[last.id_start[i].rs] # 0

\* the latest cycle and the one before it both completed
TwoCycles == last.ran /\ error = "none" /\ cycle_count >= 2

\* C32 as stated: a cycle with the hazard flag set is never followed by
\* another one, and is always followed by a cycle: simulate does not return
\* below the cap right after a hazard cycle.
C32_Original ==
  /\ (TwoCycles /\ last.hazard_1) => ~last.hazard
  /\ (Returned /\ last.ran /\ cycle_count < max_cycles) => ~last.hazard

\* C32 amended: two consecutive cycles never both report a hazard.  When a
\* cycle follows a hazard cycle its flag is clear and its Fetch step runs
\* and takes at least one word; when the hazard cycle leaves the program
\* counter at the end of the program no cycle follows, the loop of simulate
\* ends on the empty pipeline.
C32_NoBackToBackHazard ==
  /\ (TwoCycles /\ last.hazard_1) =>
       /\ ~last.hazard
       /\ stages["IF"].instructions = last.fetched_instructions
       /\ FetchedCount >= 1
       /\ pc = last.pc_start + FetchedCount
  /\ (last.ran /\ error = "none" /\ last.hazard /\ pc >= Len(program)) => ~LoopCondition

\* a cycle that followed a hazard cycle and fetched
C32_Witness ==
  /\ TwoCycles
  /\ last.hazard_1
  /\ ~last.hazard
  /\ FetchedCount >= 1
  /\ \E i \in Slots : stages["IF"].instructions[i] # None

\* the slots of the latest Execute group whose record carries a taken branch
\* or jump, and the program counter Execute left: the jump_address of the
\* last of them
TakenSlots ==
  {i \in Slots : /\ Truthy(last.ex_details[i])
                 /\ last.ex_details[i].branch_taken
                 /\ last.ex_details[i].jump_address # None}
NewPc == last.ex_details[SetMax(TakenSlots)].jump_address[1]

\* C33: a cycle in which Execute resolves a taken branch or jump reports no
\* hazard: its decoded group is empty, the hazard flag is clear, and its
\* Fetch step reads from the new program counter.
C33_TakenNoHazard ==
  (last.ran /\ error = "none" /\ Resolves(last.ex_details)) =>
    /\ \A i \in Slots : last.decoded_instructions[i] = PyNone
    /\ ~last.hazard
    /\ stages["IF"].instructions = last.fetched_instructions
    /\ pc = NewPc + FetchedCount
    /\ NewPc >= 0 =>
         /\ pc = AfterFetch(NewPc)
         /\ \A i \in Slots :
              last.fetched_instructions[i] # None
                => last.fetched_instructions[i] = Some(program[NewPc + i])

\* a taken branch or jump resolved while the Fetch latch held instructions,
\* and the same cycle fetched from the target
C33_Witness ==
  /\ last.ran /\ error = "none"
  /\ Resolves(last.ex_details)
  /\ \E i \in Slots : last.if_start[i] # None
  /\ NewPc >= 0
  /\ NewPc # last.pc_start
  /\ FetchedCount >= 1

\* the program holds no branch and no jump
StraightLine == \A k \in 1..Len(program) : ~IsBranchOrJump(decode(program[k]))
\* a cap no run of a program of this length without branch or jump reaches:
\* every cycle but the five that drain the pipeline either fetches at least
\* one word or is a hazard cycle that follows a cycle that fetched
AmpleCap == max_cycles > 2 * Len(program) + 5
\* simulate has returned from the loop on a drained pipeline
Drained ==
  /\ Returned
  /\ pc = Len(program)
  /\ \A s \in StageNames : EmptyLatch(stages[s])
  /\ cycle_count < max_cycles

\* C34: for a program without branch or jump and a large enough cap,
\* simulate terminates because the pipeline drains: it reaches a state with
\* pc = len(program) and every stage latch empty, and returns without
\* reaching the cap.
C34_Drains == (sim = "running" /\ StraightLine /\ AmpleCap) ~> Drained

\* a run of three instructions, one of them discarded by a hazard flush,
\* that returned on the drained pipeline
C34_Witness ==
  /\ Drained
  /\ StraightLine
  /\ AmpleCap
  /\ Len(program) = 3
  /\ last.ran
  /\ committed # {}

\* C35: in every reachable state the program counter is non-negative, so
\* Fetch reads program words only at indices inside 0 .. len(program) - 1:
\* no fetch fails with an index error and none wraps to the other end of the
\* program, whatever the branch offsets of the program.
C35_PcInsideProgram ==
  /\ pc >= 0
  /\ error # "IndexError"

\* the program holds only R-class ALU instructions and ADDI, ORI, XORI
AluOnly == \A k \in 1..Len(program) : decode(program[k]).mnemonic \in R_ALU \cup I_ALU
\* no instruction reads the register another instruction writes
Independent ==
  \A j \in 1..Len(program) : \A k \in 1..Len(program) :
    j # k => WrittenRegister(decode(program[j])) \notin
               get_source_registers(decode(program[k]))
\* the register file after the one instruction, executed alone on regs
SequentialStep(regs, decoded) ==
  LET a == regs[decoded.rs]
      b == regs[decoded.rt]
      target == WrittenRegister(decoded)
      value == CASE decoded.mnemonic \in R_ALU -> AluValue(decoded, a, b)
                 [] decoded.mnemonic = "ADDI" -> a + decoded.immediate
                 [] decoded.mnemonic = "ORI" -> BitOr(a, decoded.immediate)
                 [] decoded.mnemonic = "XORI" -> BitXor(a, decoded.immediate)
  IN IF target = 0 THEN regs ELSE [regs EXCEPT ![target] = value]
\* the register file after the first k instructions of the program,
\* executed one at a time in program order from the register file simulate
\* was entered with
RECURSIVE Sequential(_)
Sequential(k) ==
  IF k = 0 THEN registers0
  ELSE SequentialStep(Sequential(k - 1), decode(program[k]))

\* C36: for a straight-line program of R-class ALU and ADDI, ORI, XORI
\* instructions in which no instruction reads the register another
\* instruction writes, the register file simulate returns with, given a
\* large enough cap, is the one produced by executing the instructions one
\* at a time in program order.
C36_EqualsSequential ==
  (Returned /\ error = "none" /\ AluOnly /\ Independent /\ AmpleCap)
    => registers = Sequential(Len(program))

\* slot 0 of the latest Execute group resolved a taken branch or jump
SlotZeroTaken ==
  /\ last.ran
  /\ error = "none"
  /\ issue_width = MaxIssueWidth
  /\ Truthy(last.ex_details[1])
  /\ IsBranchOrJump(last.ex_details[1].decoded)
  /\ last.ex_details[1].branch_taken
  /\ last.ex_details[1].jump_address # None

\* slot 1 of the latest Execute group holds a branch or jump
SlotOneBranch ==
  /\ Truthy(last.ex_details[2])
  /\ IsBranchOrJump(last.ex_details[2].decoded)

\* C37: when slot 0 of an Execute group resolves a taken branch or jump and
\* slot 1 holds no branch or jump, the program counter Execute leaves is
\* slot 0's target (Fetch then advances it by the words it reads) and the
\* record of slot 1 is not marked branch_taken.
C37_SlotZeroRedirects ==
  (SlotZeroTaken /\ ~SlotOneBranch) =>
    /\ pc = last.ex_details[1].jump_address[1] + FetchedCount
    /\ Truthy(last.ex_details[2]) => ~last.ex_details[2].branch_taken

\* the machine the Execute step of the next cycle reads its operands from:
\* the Writeback and Memory steps of that cycle have run
BeforeExecute ==
  memory_stage_func(write_back_stage_func(Machine, stages["MEM"].details),
                    stages["EX"].details)
\* an integer as the pair <<v div 2^16, v mod 2^16>>, and the pairs of the
\* signed 32-bit word
Wide(v) == <<v \div 65536, v % 65536>>
FitsWord(w) == -32768 <= w[1] /\ w[1] < 32768
\* the value of ~(a | b) & 0xFFFFFFFF as a pair
WideNor(a, b) ==
  IF BitOr(a, b) < 0 THEN Wide(-BitOr(a, b) - 1)
  ELSE <<65535 - (BitOr(a, b) \div 65536), 65535 - (BitOr(a, b) % 65536)>>
\* slot 1 of the Decode latch holds a NOR with a nonzero rd that the next
\* cycle executes on two integer operands
NorNext ==
  /\ LoopContinues
  /\ BeforeExecute.error = "none"
  /\ Truthy(DecodeLatchOutput(Machine)[1])
  /\ DecodeLatchOutput(Machine)[1].mnemonic = "NOR"
  /\ DecodeLatchOutput(Machine)[1].rd # 0
  /\ ~get_register_value_raises(BeforeExecute, DecodeLatchOutput(Machine)[1].rs)
  /\ ~get_register_value_raises(BeforeExecute, DecodeLatchOutput(Machine)[1].rt)
  /\ get_register_value(BeforeExecute, DecodeLatchOutput(Machine)[1].rs) # None
  /\ get_register_value(BeforeExecute, DecodeLatchOutput(Machine)[1].rt) # None

\* C38: every register value fits the 32-bit word, results wrapping modulo
\* 2^32 into the signed range: the value Execute computes for the rd of a
\* NOR, which Writeback stores in the register unchanged, lies in
\* -2^31 <= v < 2^31.
C38_FitsWord ==
  NorNext =>
    FitsWord(WideNor(
      get_register_value(BeforeExecute, DecodeLatchOutput(Machine)[1].rs)[1],
      get_register_value(BeforeExecute, DecodeLatchOutput(Machine)[1].rt)[1]))
====
